---- MODULE Spec2Model ----
(***************************************************************************)
(* Model of the wzsh shell compiler (shell_compiler/src/lib.rs) and of the *)
(* virtual machine that runs the programs it emits.  A shell string is a   *)
(* sequence of one-character strings, so that appending, joining, field    *)
(* splitting and length are computed and not assumed.                      *)
(***************************************************************************)
EXTENDS Integers, Sequences, FiniteSets, TLC

VARIABLES
    pc,          \* "parsed" | "run" | "done" | "compile_error" | "machine_error"
    ast,         \* the Command handed to compile_command
    env0,        \* the Environment handed to Machine::new
    program,     \* Vec<Operation> returned by finish
    ip,          \* machine instruction pointer (0-based address)
    frames,      \* machine frame stack, top last; a frame is its slots 1..size
    envs,        \* machine environment stack, top last
    ios,         \* machine I/O environment stack, top last
    pipeStash,   \* read end stashed by PushPipe for the next PopPipe
    nextPipe,    \* number of pipes created so far
    lastStatus,  \* machine last wait status
    nextChild,   \* number of children spawned so far
    spawnLog,    \* TestHost::spawn_log
    events,      \* history: spawn, wait, invert, error in execution order
    stderr,      \* text written to the stderr of the I/O environment
    finalStatus, \* Status returned by Machine::run, -1 while running
    searcher,    \* a SimplePathSearcher and what its next() has returned so far
    host,        \* a host whose children run beside the machine: children, pipes
    repl,        \* the read-eval-print loop: input, prompt, env_bits
    jobs         \* a JobList, the Jobs created, and the locks its calls hold

vars == <<pc, ast, env0, program, ip, frames, envs, ios, pipeStash, nextPipe,
          lastStatus, nextChild, spawnLog, events, stderr, finalStatus, searcher,
          host, repl, jobs>>

-----------------------------------------------------------------------------
(* Bounds of the model *)

\* largest number of commands in a generated compound list or pipeline
MaxList == 2
\* largest number of words in a generated command of literal words
MaxWords == 2

-----------------------------------------------------------------------------
(* Text *)

s_empty == <<>>
s_echo == <<"e", "c", "h", "o">>
s_true == <<"t", "r", "u", "e">>
s_false == <<"f", "a", "l", "s", "e">>
s_uppercase == <<"u", "p", "p", "e", "r", "c", "a", "s", "e">>
s_hello == <<"h", "e", "l", "l", "o">>
s_foo == <<"f", "o", "o">>
s_bar == <<"b", "a", "r">>
s_baz == <<"b", "a", "z">>
s_1 == <<"1">>
s_a == <<"a">>
s_a_b == <<"a", " ", "b">>
s_wez == <<"w", "e", "z">>
s_one == <<"o", "n", "e">>
s_bob == <<"b", "o", "b">>
s_home_wez == <<"/", "h", "o", "m", "e", "/", "w", "e", "z">>
s_home_one == <<"/", "h", "o", "m", "e", "/", "o", "n", "e">>
s_out == <<"o", "u", "t">>
s_parameter_ == <<"p", "a", "r", "a", "m", "e", "t", "e", "r", " ">>
s__is_not_set == <<" ", "i", "s", " ", "n", "o", "t", " ", "s", "e", "t">>

-----------------------------------------------------------------------------
(* Values, operands and operations of shell_vm, as the compiler uses them *)

VNone == [t |-> "None"]
VStr(s) == [t |-> "String", s |-> s]
VList(l) == [t |-> "List", l |-> l]
VInt(i) == [t |-> "Integer", i |-> i]
VWait(id, code) == [t |-> "WaitableStatus", id |-> id, code |-> code]

Immediate(v) == [k |-> "Immediate", v |-> v]
FrameRelative(n) == [k |-> "FrameRelative", n |-> n]
LastWaitStatus == [k |-> "LastWaitStatus"]

-----------------------------------------------------------------------------
(* Register allocator of a frame compiler *)

Min(S) == CHOOSE x \in S : \A y \in S : x <= y

\* RegisterAllocator::new: nothing allocated, slot numbering starts at 1
NewAllocator(addr) == [free |-> {}, high |-> 0, frame_start_program_address |-> addr]

\* RegisterAllocator::allocate: a recycled slot if there is one, else a new one
AllocSlot(f) == IF f.free # {} THEN Min(f.free) ELSE f.high + 1

AllocFrame(f) ==
    IF f.free # {} THEN [f EXCEPT !.free = @ \ {Min(f.free)}]
    ELSE [f EXCEPT !.high = @ + 1]

\* RegisterAllocator::free
FreeFrame(f, slot) == [f EXCEPT !.free = @ \cup {slot}]

\* a frame size that counts a slot 0 besides the slots allocated
FrameSizePlusOne(f) == f.high + 1

\* RegisterAllocator::frame_size: `echo hello` uses slots 1 and 2 and its
\* PushFrame is patched to size 2 (test::basic_echo)
FrameSize(f) == f.high

-----------------------------------------------------------------------------
(* Compiler: the state is the program emitted so far, the stack of frame   *)
(* compilers, and whether a `?` has returned an error; calls is the       *)
(* history of the calls of allocate and free, each with the frame it was  *)
(* made on and the length of the program at that moment                   *)

NewCompiler == [program |-> <<>>, frames |-> <<>>, err |-> FALSE, calls |-> <<>>]

\* a call of allocate or free on the current frame, for the history
Call(c, name, slot) ==
    [call |-> name, slot |-> slot,
     frame |-> c.frames[Len(c.frames)].frame_start_program_address,
     at |-> Len(c.program)]

Bail(c) == [c EXCEPT !.err = TRUE]

Push(c, op) == [c EXCEPT !.program = Append(@, op)]

\* finish with a constant exit status
FinishExitZero(c) == Push(c, [op |-> "Exit", value |-> Immediate(VInt(0))]).program

\* Compiler::finish
Finish(c) == Push(c, [op |-> "Exit", value |-> LastWaitStatus]).program

\* Compiler::reserve_frame
ReserveFrame(c) ==
    [Push(c, [op |-> "PushFrame", size |-> 0])
        EXCEPT !.frames = Append(@, NewAllocator(Len(c.program)))]

\* commit_frame that patches the PushFrame and forgets the PopFrame
CommitFrameNoPop(c) ==
    IF c.frames = <<>> THEN Bail(c)
    ELSE [c EXCEPT
            !.frames = SubSeq(@, 1, Len(@) - 1),
            !.program[c.frames[Len(c.frames)].frame_start_program_address + 1] =
                [op |-> "PushFrame", size |-> FrameSize(c.frames[Len(c.frames)])]]

\* commit_frame that emits the PopFrame and leaves the dummy frame size
CommitFrameNoPatch(c) ==
    IF c.frames = <<>> THEN Bail(c)
    ELSE [Push(c, [op |-> "PopFrame"]) EXCEPT !.frames = SubSeq(@, 1, Len(@) - 1)]

\* Compiler::commit_frame
CommitFrame(c) ==
    IF c.frames = <<>> THEN Bail(c)
    ELSE LET frame == c.frames[Len(c.frames)]
             patched == [c EXCEPT
                 !.frames = SubSeq(@, 1, Len(@) - 1),
                 !.program[frame.frame_start_program_address + 1] =
                     [op |-> "PushFrame", size |-> FrameSize(frame)]]
         IN Push(patched, [op |-> "PopFrame"])

\* Compiler::frame()?.allocate(): the slot, and the compiler afterwards
AllocatedSlot(c) == AllocSlot(c.frames[Len(c.frames)])

Allocate(c) ==
    IF c.frames = <<>> THEN Bail(c)
    ELSE [c EXCEPT !.frames[Len(c.frames)] = AllocFrame(@),
                   !.calls = Append(@, Call(c, "allocate", AllocatedSlot(c)))]

\* Compiler::frame()?.free(slot)
Free(c, slot) ==
    IF c.frames = <<>> THEN Bail(c)
    ELSE [c EXCEPT !.frames[Len(c.frames)] = FreeFrame(@, slot),
                   !.calls = Append(@, Call(c, "free", slot))]

\* Compiler::allocate_list (the slot is AllocatedSlot(c))
AllocateList(c) ==
    IF c.frames = <<>> THEN Bail(c)
    ELSE Push(Allocate(c), [op |-> "Copy", source |-> Immediate(VList(<<>>)),
                            destination |-> FrameRelative(AllocatedSlot(c))])

\* Compiler::allocate_string (the slot is AllocatedSlot(c))
AllocateString(c) ==
    IF c.frames = <<>> THEN Bail(c)
    ELSE Push(Allocate(c), [op |-> "Copy", source |-> Immediate(VStr(s_empty)),
                            destination |-> FrameRelative(AllocatedSlot(c))])

\* if_then_else, first half: the reserved JumpIfZero
IfThenElseBegin(c, condition) ==
    Push(c, [op |-> "JumpIfZero", condition |-> condition, target |-> 0])

\* the JumpIfZero patched to the reserved Jump instead of the operation after it
IfThenElseMiddleOntoJump(c, first_jump) ==
    IF c.err THEN c
    ELSE LET second_jump == Len(c.program)
             pushed == Push(c, [op |-> "Jump", target |-> 0])
         IN IF pushed.program[first_jump + 1].op # "JumpIfZero" THEN Bail(pushed)
            ELSE [pushed EXCEPT !.program[first_jump + 1].target = second_jump]

\* if_then_else, after THEN: reserve the Jump, patch the JumpIfZero
IfThenElseMiddle(c, first_jump) ==
    IF c.err THEN c
    ELSE LET second_jump == Len(c.program)
             pushed == Push(c, [op |-> "Jump", target |-> 0])
         IN IF pushed.program[first_jump + 1].op # "JumpIfZero" THEN Bail(pushed)
            ELSE [pushed EXCEPT !.program[first_jump + 1].target = second_jump + 1]

\* the Jump patched to the last operation emitted instead of the next one
IfThenElseEndOntoLast(c, second_jump) ==
    IF c.err THEN c
    ELSE IF c.program[second_jump + 1].op # "Jump" THEN Bail(c)
    ELSE [c EXCEPT !.program[second_jump + 1].target = Len(c.program) - 1]

\* the Jump patched two operations too far
IfThenElseEndTooFar(c, second_jump) ==
    IF c.err THEN c
    ELSE IF c.program[second_jump + 1].op # "Jump" THEN Bail(c)
    ELSE [c EXCEPT !.program[second_jump + 1].target = Len(c.program) + 2]

\* the Jump patched with its own address
IfThenElseEndOntoItself(c, second_jump) ==
    IF c.err THEN c
    ELSE IF c.program[second_jump + 1].op # "Jump" THEN Bail(c)
    ELSE [c EXCEPT !.program[second_jump + 1].target = second_jump]

\* if_then_else, after ELSE: patch the Jump
IfThenElseEnd(c, second_jump) ==
    IF c.err THEN c
    ELSE IF c.program[second_jump + 1].op # "Jump" THEN Bail(c)
    ELSE [c EXCEPT !.program[second_jump + 1].target = Len(c.program)]

Copy(source, destination) == [op |-> "Copy", source |-> source, destination |-> destination]

\* `?`: the rest of the function runs only when no error was returned
FreeOk(c, slot) == IF c.err THEN c ELSE Free(c, slot)
PushOk(c, op) == IF c.err THEN c ELSE Push(c, op)
\* `if cond { self.push(op) }`
PushIf(c, cond, op) == IF c.err \/ ~cond THEN c ELSE Push(c, op)

RECURSIVE WordExpand(_, _, _), WordComponents(_, _, _, _), ExpandWords(_, _, _, _),
          ParameterExpand(_, _, _), ExpandJoin(_, _, _)

RECURSIVE ExpandWordsBackwards(_, _, _, _)
\* the words expanded from the last to the first
ExpandWordsBackwards(c, argv, words, i) ==
    IF c.err \/ i > Len(words) THEN c
    ELSE WordExpand(ExpandWordsBackwards(c, argv, words, i + 1), argv, words[i])

\* the loop `for w in words { word_expand(argv, w)? }`, from the i-th word on
ExpandWords(c, argv, words, i) ==
    IF c.err \/ i > Len(words) THEN c
    ELSE ExpandWords(WordExpand(c, argv, words[i]), argv, words, i + 1)

\* the end of the closure that expands expr.word: JoinList into the target,
\* free the list
JoinInto(c, argv, target_string) ==
    FreeOk(PushOk(c, [op |-> "JoinList", list |-> FrameRelative(argv),
                      destination |-> FrameRelative(target_string)]),
           argv)

\* allocate_list, expand expr.word into it, JoinList into target, free the list
ExpandJoin(c, target_string, words) ==
    IF c.err THEN c
    ELSE JoinInto(ExpandWords(AllocateList(c), AllocatedSlot(c), words, 1),
                  AllocatedSlot(c), target_string)

\* the THEN closure of CheckSet never expanding expr.word
ThenExpandsNoCheckSet(expr) == expr.kind \in {"GetDefault", "AssignDefault"}

\* whether the THEN closure of the operator expands expr.word
ThenExpands(expr) ==
    \/ expr.kind \in {"GetDefault", "AssignDefault"}
    \/ expr.kind = "CheckSet" /\ expr.word # <<>>

\* the THEN closure of AssignDefault without its SetEnv
ParamThenEndNoSetEnv(c, target_string, expr) ==
    IF c.err THEN c
    ELSE CASE expr.kind \in {"GetDefault", "AssignDefault"} -> c
           [] expr.kind = "CheckSet" ->
                 Push(c, [op |-> "Error", message |->
                          IF expr.word = <<>>
                          THEN Immediate(VStr(s_parameter_ \o expr.name \o s__is_not_set))
                          ELSE FrameRelative(target_string)])
           [] expr.kind = "AlternativeValue" ->
                 Push(c, Copy(Immediate(VStr(s_empty)), FrameRelative(target_string)))

\* what the THEN closure emits after the expansion of expr.word, if any
ParamThenEnd(c, target_string, expr) ==
    IF c.err THEN c
    ELSE CASE expr.kind = "GetDefault" -> c
           [] expr.kind = "AssignDefault" ->
                 Push(c, [op |-> "SetEnv", name |-> Immediate(VStr(expr.name)),
                          value |-> FrameRelative(target_string)])
           [] expr.kind = "CheckSet" ->
                 Push(c, [op |-> "Error", message |->
                          IF expr.word = <<>>
                          THEN Immediate(VStr(s_parameter_ \o expr.name \o s__is_not_set))
                          ELSE FrameRelative(target_string)])
           [] expr.kind = "AlternativeValue" ->
                 Push(c, Copy(Immediate(VStr(s_empty)), FrameRelative(target_string)))

\* the THEN closure handed to if_then_else by the operators of parameter_expand
ParamThen(c, target_string, expr) ==
    ParamThenEnd(IF ThenExpands(expr) THEN ExpandJoin(c, target_string, expr.word) ELSE c,
                 target_string, expr)

\* the ELSE closure that copies the value whatever the operator
ParamElseAlwaysCopy(c, slot, target_string, expr) ==
    IF c.err THEN c
    ELSE Push(c, Copy(FrameRelative(slot), FrameRelative(target_string)))

\* the ELSE closure handed to if_then_else by the operators of parameter_expand
ParamElse(c, slot, target_string, expr) ==
    IF c.err THEN c
    ELSE IF expr.kind = "AlternativeValue" THEN ExpandJoin(c, target_string, expr.word)
    ELSE Push(c, Copy(FrameRelative(slot), FrameRelative(target_string)))

\* the two tests exchanged
NullTestSwapped(allow_null) == IF allow_null THEN "IsNoneOrEmptyString" ELSE "IsNone"

\* `if allow_null { IsNone } else { IsNoneOrEmptyString }`
NullTest(allow_null) == IF allow_null THEN "IsNone" ELSE "IsNoneOrEmptyString"

\* parameter_expand, an operator with a null check: after the ELSE closure
ParamAfterElse(c, second_jump, test) == FreeOk(IfThenElseEnd(c, second_jump), test)

\* parameter_expand, an operator with a null check: after the THEN closure
ParamAfterThen(c, first_jump, test, slot, target_string, expr) ==
    ParamAfterElse(ParamElse(IfThenElseMiddle(c, first_jump), slot, target_string, expr),
                   Len(c.program), test)

\* parameter_expand, an operator with a null check: after the test is emitted
ParamConditional(c, test, slot, target_string, expr) ==
    ParamAfterThen(ParamThen(IfThenElseBegin(c, FrameRelative(test)), target_string, expr),
                   Len(c.program), test, slot, target_string, expr)

\* parameter_expand compiling `${#v}` as `$v`
ParamOperatorLengthAsGet(c, slot, target_string, expr) ==
    CASE expr.kind \in {"Get", "StringLength"} ->
           Push(c, Copy(FrameRelative(slot), FrameRelative(target_string)))
      [] expr.kind \in {"GetDefault", "AssignDefault", "CheckSet", "AlternativeValue"} ->
           ParamConditional(Push(Allocate(c), [op |-> NullTest(expr.allow_null),
                                               source |-> FrameRelative(slot),
                                               destination |-> FrameRelative(AllocatedSlot(c))]),
                            AllocatedSlot(c), slot, target_string, expr)
      [] OTHER -> Bail(c)

\* parameter_expand: `match expr.kind`, after GetEnv is emitted
ParamOperator(c, slot, target_string, expr) ==
    CASE expr.kind = "Get" ->
           Push(c, Copy(FrameRelative(slot), FrameRelative(target_string)))
      [] expr.kind = "StringLength" ->
           Push(c, [op |-> "StringLength", string |-> FrameRelative(slot),
                    length |-> FrameRelative(target_string)])
      [] expr.kind \in {"GetDefault", "AssignDefault", "CheckSet", "AlternativeValue"} ->
           ParamConditional(Push(Allocate(c), [op |-> NullTest(expr.allow_null),
                                               source |-> FrameRelative(slot),
                                               destination |-> FrameRelative(AllocatedSlot(c))]),
                            AllocatedSlot(c), slot, target_string, expr)
      [] OTHER -> Bail(c)

\* Compiler::parameter_expand
ParameterExpand(c, target_string, expr) ==
    IF c.err \/ c.frames = <<>> THEN Bail(c)
    ELSE ParamOperator(Push(Allocate(c), [op |-> "GetEnv",
                                          name |-> Immediate(VStr(expr.name)),
                                          target |-> FrameRelative(AllocatedSlot(c))]),
                       AllocatedSlot(c), target_string, expr)

\* word_expand: StringAppend of the expanded component, free of its slot
AppendExpanded(c, expanded, expanded_word) ==
    FreeOk(PushOk(c, [op |-> "StringAppend", source |-> FrameRelative(expanded),
                      destination |-> FrameRelative(expanded_word)]),
           expanded)

\* word_expand: `match &component.kind`
WordComponent(c, expanded_word, component) ==
    CASE component.kind = "Literal" ->
           Push(c, [op |-> "StringAppend", source |-> Immediate(VStr(component.literal)),
                    destination |-> FrameRelative(expanded_word)])
      [] component.kind = "TildeExpand" ->
           AppendExpanded(Push(AllocateString(c),
                               [op |-> "TildeExpand",
                                name |-> Immediate(IF component.name.some
                                                   THEN VStr(component.name.value)
                                                   ELSE VNone),
                                destination |-> FrameRelative(AllocatedSlot(c))]),
                          AllocatedSlot(c), expanded_word)
      [] component.kind = "ParamExpand" ->
           AppendExpanded(ParameterExpand(AllocateString(c), AllocatedSlot(c),
                                          component.expr),
                          AllocatedSlot(c), expanded_word)
      [] OTHER -> Bail(c)

\* the loop over the components of a word, from the i-th component on
WordComponents(c, expanded_word, word, i) ==
    IF c.err \/ i > Len(word) THEN c
    ELSE WordComponents(WordComponent(c, expanded_word, word[i]), expanded_word, word, i + 1)

\* `split` left true whatever the components
AlwaysSplit(word) == TRUE

\* `split`: false as soon as one component is not splittable
AllSplittable(word) == \A i \in 1..Len(word) : word[i].splittable

\* word_expand never asking for field splitting
WordEndNoSplit(c, expanded_word, argv, split) ==
    FreeOk(PushOk(c, [op |-> "ListAppend", value |-> FrameRelative(expanded_word),
                      list |-> FrameRelative(argv), split |-> FALSE, glob |-> TRUE]),
           expanded_word)

\* word_expand that frees the slot of the expanded word before the ListAppend
\* that reads it
WordEndFreesFirst(c, expanded_word, argv, split) ==
    PushOk(FreeOk(c, expanded_word),
           [op |-> "ListAppend", value |-> FrameRelative(expanded_word),
            list |-> FrameRelative(argv), split |-> split, glob |-> TRUE])

\* word_expand: ListAppend of the expanded word, free of its slot
WordEnd(c, expanded_word, argv, split) ==
    FreeOk(PushOk(c, [op |-> "ListAppend", value |-> FrameRelative(expanded_word),
                      list |-> FrameRelative(argv), split |-> split, glob |-> TRUE]),
           expanded_word)

\* Compiler::word_expand
WordExpand(c, argv, word) ==
    IF c.err \/ c.frames = <<>> THEN Bail(c)
    ELSE WordEnd(WordComponents(AllocateString(c), AllocatedSlot(c), word, 1),
                 AllocatedSlot(c), argv, AllSplittable(word))

RECURSIVE Redirections(_, _, _), ProcessAssignmentsFrom(_, _, _), CompileCommand(_, _),
          CompoundListFrom(_, _, _), PipelineFrom(_, _, _)

\* an OpenFile that never appends
OpenFileEndTruncates(c, filename, r) ==
    FreeOk(PushOk(c, [op |-> "OpenFile", name |-> FrameRelative(filename),
                      fd_number |-> r.fd_number, input |-> r.input, output |-> r.output,
                      clobber |-> r.clobber, append |-> FALSE]),
           filename)

\* apply_redirection, Redirection::File: after the file name is expanded
OpenFileEnd(c, filename, r) ==
    FreeOk(PushOk(c, [op |-> "OpenFile", name |-> FrameRelative(filename),
                      fd_number |-> r.fd_number, input |-> r.input, output |-> r.output,
                      clobber |-> r.clobber, append |-> r.append]),
           filename)

\* apply_redirection: `match r`
Redirect(c, r) ==
    IF r.r = "File"
    THEN OpenFileEnd(WordExpand(AllocateList(c), AllocatedSlot(c), r.file_name),
                     AllocatedSlot(c), r)
    ELSE Push(c, [op |-> "DupFd", src_fd |-> r.src_fd_number, dest_fd |-> r.dest_fd_number])

\* the loop `for r in redir` of apply_redirection, from the i-th redirection on
Redirections(c, redir, i) ==
    IF c.err \/ i > Len(redir) THEN c
    ELSE Redirections(Redirect(c, redir[i]), redir, i + 1)

\* Compiler::apply_redirection; the bool it returns is redir # <<>>
ApplyRedirection(c, redir) ==
    IF c.err \/ redir = <<>> THEN c
    ELSE Redirections(Push(c, [op |-> "PushIo"]), redir, 1)

\* a pop_redirection that never emits PopIo
PopRedirectionNever(c, do_pop) == c

\* Compiler::pop_redirection
PopRedirection(c, do_pop) ==
    IF c.err \/ ~do_pop THEN c ELSE Push(c, [op |-> "PopIo"])

\* process_assignments: JoinList in place, SetEnv, free of the slot
AssignmentEnd(c, value, a) ==
    FreeOk(PushOk(PushOk(c, [op |-> "JoinList", list |-> FrameRelative(value),
                             destination |-> FrameRelative(value)]),
                  [op |-> "SetEnv", name |-> Immediate(VStr(a.name)),
                   value |-> FrameRelative(value)]),
           value)

\* Compiler::process_assignments, from the i-th assignment on
ProcessAssignmentsFrom(c, assignments, i) ==
    IF c.err \/ i > Len(assignments) THEN c
    ELSE ProcessAssignmentsFrom(
             AssignmentEnd(WordExpand(AllocateList(c), AllocatedSlot(c),
                                      assignments[i].value),
                           AllocatedSlot(c), assignments[i]),
             assignments, i + 1)

ProcessAssignments(c, assignments) == ProcessAssignmentsFrom(c, assignments, 1)

\* Compiler::compound_list
CompoundList(c, list) == CompoundListFrom(c, list.commands, 1)

CompoundListFrom(c, commands, i) ==
    IF c.err \/ i > Len(commands) THEN c
    ELSE CompoundListFrom(CompileCommand(c, commands[i]), commands, i + 1)

\* `if let Some(part) = &cmd.part { me.compound_list(part)?; }`
OptionalList(c, part) ==
    IF c.err \/ ~part.some THEN c ELSE CompoundList(c, part.value)

\* pop_env that is never set
PopEnvNever(simple) == FALSE

\* pop_env set by the assignments alone
PopEnvAnyAssignment(simple) == simple.assignments # <<>>

\* `let pop_env = !simple.words.is_empty() && !simple.assignments.is_empty()`
PopEnv(simple) == simple.words # <<>> /\ simple.assignments # <<>>

\* a simple command that is waited for even when it is asynchronous
SimpleEndAlwaysWaits(c, status, command) ==
    PopRedirection(
        PushIf(FreeOk(PushOk(c, [op |-> "Wait", status |-> FrameRelative(status)]),
                      status),
               PopEnv(command.command), [op |-> "PopEnvironment"]),
        command.command.redirects # <<>>)

\* SimpleCommand: Wait unless asynchronous, free of the status slot,
\* PopEnvironment if pop_env, pop_redirection(pop_redir)
SimpleEnd(c, status, command) ==
    PopRedirection(
        PushIf(FreeOk(PushIf(c, ~command.asynchronous,
                             [op |-> "Wait", status |-> FrameRelative(status)]),
                      status),
               PopEnv(command.command), [op |-> "PopEnvironment"]),
        command.command.redirects # <<>>)

\* SimpleCommand: allocation of the status slot and SpawnCommand
SimpleSpawn(c, argv, command) ==
    IF c.err THEN c
    ELSE SimpleEnd(Push(Allocate(c), [op |-> "SpawnCommand", argv |-> FrameRelative(argv),
                                      status |-> FrameRelative(AllocatedSlot(c))]),
                   AllocatedSlot(c), command)

\* SimpleCommand: PushEnvironment if pop_env, the assignments, the words
SimpleBody(c, argv, command) ==
    SimpleSpawn(
        ExpandWords(
            ProcessAssignments(PushIf(c, PopEnv(command.command),
                                      [op |-> "PushEnvironment"]),
                               command.command.assignments),
            argv, command.command.words, 1),
        argv, command)

\* compile_command, CommandType::SimpleCommand
SimpleCommand(c, command) ==
    SimpleBody(ApplyRedirection(AllocateList(c), command.command.redirects),
               AllocatedSlot(c), command)

\* CommandType::If: after the true part
IfAfterThen(c, first_jump, cmd) ==
    IfThenElseEnd(OptionalList(IfThenElseMiddle(c, first_jump), cmd.false_part),
                  Len(c.program))

\* CommandType::If: after the condition
IfAfterCondition(c, cmd) ==
    IF c.err THEN c
    ELSE IfAfterThen(OptionalList(IfThenElseBegin(c, LastWaitStatus), cmd.true_part),
                     Len(c.program), cmd)

\* compile_command, CommandType::If
IfCommand(c, cmd) == IfAfterCondition(CompoundList(c, cmd.condition), cmd)

\* a stage that sets up its write pipe before it connects its read pipe
StageBeginPushBeforePop(c, i, n) ==
    PushIf(PushIf(Push(c, [op |-> "PushIo"]), i # n, [op |-> "PushPipe"]),
           i # 1, [op |-> "PopPipe"])

\* a stage that never connects the read end of the previous pipe
StageBeginNoPopPipe(c, i, n) ==
    PushIf(Push(c, [op |-> "PushIo"]), i # n, [op |-> "PushPipe"])

\* the operations emitted before a stage of a pipeline of n commands
StageBegin(c, i, n) ==
    PushIf(PushIf(Push(c, [op |-> "PushIo"]), i # 1, [op |-> "PopPipe"]),
           i # n, [op |-> "PushPipe"])

\* compile_command, CommandType::Pipeline with more than one command,
\* from the i-th command on (i counts from 1)
PipelineFrom(c, commands, i) ==
    IF c.err \/ i > Len(commands) THEN c
    ELSE PipelineFrom(PushOk(CompileCommand(StageBegin(c, i, Len(commands)), commands[i]),
                             [op |-> "PopIo"]),
                      commands, i + 1)

\* a pipeline whose `!` is honoured only when there is something to pipe
PipelineCommandInvertsPipes(c, pipeline) ==
    PushIf(IF Len(pipeline.commands) <= 1
           THEN CompoundListFrom(c, pipeline.commands, 1)
           ELSE PipelineFrom(c, pipeline.commands, 1),
           pipeline.inverted /\ Len(pipeline.commands) >= 2, [op |-> "InvertLastWait"])

\* compile_command, CommandType::Pipeline
PipelineCommand(c, pipeline) ==
    PushIf(IF Len(pipeline.commands) <= 1
           THEN CompoundListFrom(c, pipeline.commands, 1)
           ELSE PipelineFrom(c, pipeline.commands, 1),
           pipeline.inverted, [op |-> "InvertLastWait"])

\* compile_command: `match &command.command`
CommandBody(c, command) ==
    IF c.err THEN c
    ELSE CASE command.command.type = "SimpleCommand" -> SimpleCommand(c, command)
           [] command.command.type = "If" -> IfCommand(c, command.command)
           [] command.command.type \in {"Program", "BraceGroup"} ->
                  CompoundList(c, command.command.list)
           [] command.command.type = "Pipeline" -> PipelineCommand(c, command.command)
           [] OTHER -> Bail(c)

\* a compile_command that drops the error of what it compiled
CommandEndSwallows(c, command) ==
    CommitFrame(PopRedirection([c EXCEPT !.err = FALSE], command.redirects # <<>>))

\* compile_command: pop_redirection(pop_outer_redir) and commit_frame
CommandEnd(c, command) ==
    IF c.err THEN c ELSE CommitFrame(PopRedirection(c, command.redirects # <<>>))

\* Compiler::compile_command
CompileCommand(c, command) ==
    IF c.err THEN c
    ELSE CommandEnd(CommandBody(ApplyRedirection(ReserveFrame(c), command.redirects),
                                command),
                    command)

\* test::compile after the parser: Compiler::new, compile_command
Compile(command) == CompileCommand(NewCompiler, command)

-----------------------------------------------------------------------------
(* Command trees as shell_parser and shell_lexer hand them to the compiler *)

None == [some |-> FALSE]
Some(v) == [some |-> TRUE, value |-> v]

\* an unquoted literal is subject to field splitting, a quoted one is not
Lit(s) == [kind |-> "Literal", literal |-> s, splittable |-> TRUE]
Quoted(s) == [kind |-> "Literal", literal |-> s, splittable |-> FALSE]
Tilde(name) == [kind |-> "TildeExpand", name |-> name, splittable |-> FALSE]
CommandSubstitution == [kind |-> "CommandSubstitution", splittable |-> TRUE]
ParamExpr(name, kind, allow_null, word) ==
    [name |-> name, kind |-> kind, allow_null |-> allow_null, word |-> word]
Param(expr, splittable) ==
    [kind |-> "ParamExpand", expr |-> expr, splittable |-> splittable]

Assignment(name, value) == [name |-> name, value |-> value]

FileRedirection(word, fd) ==
    [r |-> "File", file_name |-> word, fd_number |-> fd, input |-> FALSE,
     output |-> TRUE, clobber |-> FALSE, append |-> FALSE]
FdRedirection(src, dest) == [r |-> "Fd", src_fd_number |-> src, dest_fd_number |-> dest]

Command(type, redirects, asynchronous) ==
    [command |-> type, redirects |-> redirects, asynchronous |-> asynchronous]
SimpleType(assignments, words, redirects) ==
    [type |-> "SimpleCommand", assignments |-> assignments, words |-> words,
     redirects |-> redirects]
Simple(assignments, words) ==
    Command(SimpleType(assignments, words, <<>>), <<>>, FALSE)
Async(command) == [command EXCEPT !.asynchronous = TRUE]
CompoundOf(commands) == [commands |-> commands]
IfType(condition, true_part, false_part) ==
    [type |-> "If", condition |-> CompoundOf(condition),
     true_part |-> IF true_part.some THEN Some(CompoundOf(true_part.value)) ELSE None,
     false_part |-> IF false_part.some THEN Some(CompoundOf(false_part.value)) ELSE None]
ListType(type, commands) == [type |-> type, list |-> CompoundOf(commands)]
PipelineType(commands, inverted) ==
    [type |-> "Pipeline", commands |-> commands, inverted |-> inverted]
Plain(type) == Command(type, <<>>, FALSE)

\* the parser's tree for `a && b` and for `a || b`
AndIf(a, b) == Plain(IfType(<<a>>, Some(<<b>>), None))
OrIf(a, b) == Plain(IfType(<<a>>, None, Some(<<b>>)))

-----------------------------------------------------------------------------
(* Text operations of the machine *)

Digit(d) == <<"0", "1", "2", "3", "4", "5", "6", "7", "8", "9">>[d + 1]

RECURSIVE Decimal(_)
\* the `{}` formatting of a non-negative integer
Decimal(i) == IF i < 10 THEN <<Digit(i)>> ELSE Decimal(i \div 10) \o <<Digit(i % 10)>>

\* the text a value contributes to StringAppend and ListAppend
StringOf(v) ==
    CASE v.t = "String" -> v.s
      [] v.t = "Integer" -> Decimal(v.i)
      [] OTHER -> s_empty

RECURSIVE SplitFrom(_, _, _)
\* the whitespace-separated fields of s from position i on, cur being the
\* field collected so far; empty fields are dropped
SplitFrom(s, i, cur) ==
    IF i > Len(s) THEN (IF cur = <<>> THEN <<>> ELSE <<cur>>)
    ELSE IF s[i] = " "
         THEN (IF cur = <<>> THEN <<>> ELSE <<cur>>) \o SplitFrom(s, i + 1, <<>>)
         ELSE SplitFrom(s, i + 1, Append(cur, s[i]))

SplitFields(s) == SplitFrom(s, 1, <<>>)

RECURSIVE JoinFromTrailing(_, _)
\* a join that writes the separator after every text, the last included
JoinFromTrailing(l, i) ==
    IF i > Len(l) THEN <<>> ELSE l[i] \o <<" ">> \o JoinFromTrailing(l, i + 1)

RECURSIVE JoinFrom(_, _)
\* the texts of l from position i on, a single space between two of them
JoinFrom(l, i) ==
    IF i > Len(l) THEN <<>>
    ELSE IF i = Len(l) THEN l[i]
    ELSE l[i] \o <<" ">> \o JoinFrom(l, i + 1)

Join(l) == JoinFrom(l, 1)

-----------------------------------------------------------------------------
(* Environment and I/O environment *)

EmptyEnvironment == [n \in {} |-> s_empty]

EnvIsSet(env, name) == name \in DOMAIN env

\* Environment::set
EnvSet(env, name, value) ==
    [n \in DOMAIN env \cup {name} |-> IF n = name THEN value ELSE env[n]]

Inherited(fd) == [kind |-> "inherited", fd |-> fd]
PipeRead(id) == [kind |-> "pipe_read", id |-> id]
PipeWrite(id) == [kind |-> "pipe_write", id |-> id]
File(name) == [kind |-> "file", name |-> name]

InitialIo == [fd \in {0, 1, 2} |-> Inherited(fd)]

\* IoEnvironment::assign_fd
AssignFd(io, fd, handle) ==
    [n \in DOMAIN io \cup {fd} |-> IF n = fd THEN handle ELSE io[n]]

-----------------------------------------------------------------------------
(* The host of the tests *)

\* TestHost::spawn_command: the exit code it reports for argv, -1 for Err
HostExitCode(argv) ==
    IF argv = <<>> THEN -1
    ELSE CASE argv[1] = s_true -> 0
           [] argv[1] = s_echo -> 0
           [] argv[1] = s_false -> 1
           [] argv[1] = s_uppercase -> 0
           [] OTHER -> 2

\* TestHost::lookup_homedir, None for `bail!`
LookupHomedir(user) ==
    IF ~user.some THEN Some(s_home_wez)
    ELSE CASE user.value = s_wez -> Some(s_home_wez)
           [] user.value = s_one -> Some(s_home_one)
           [] OTHER -> None

\* the status the machine stores when the host fails to spawn
SpawnErrorStatus == 1

-----------------------------------------------------------------------------
(* Machine *)

-----------------------------------------------------------------------------
(* pathsearch: SimplePathSearcher *)

\* no host with concurrent children, no read-eval-print loop, no JobList
NoHost == [children |-> <<>>, fill |-> <<>>]
NoRepl == [at |-> "none"]
NoJobs == [at |-> "none"]

\* no searcher has been constructed
NoSearcher == [command |-> <<>>, path_iter |-> <<>>, results |-> <<>>]

RECURSIVE SplitPathsFrom(_, _, _)
\* std::env::split_paths on Unix: the pieces of s between the `:`, the empty
\* ones included, so that the empty string has one, empty, entry
SplitPathsFrom(s, i, cur) ==
    IF i > Len(s) THEN <<cur>>
    ELSE IF s[i] = ":" THEN <<cur>> \o SplitPathsFrom(s, i + 1, <<>>)
    ELSE SplitPathsFrom(s, i + 1, Append(cur, s[i]))

SplitPaths(s) == SplitPathsFrom(s, 1, <<>>)

\* Path::join: an absolute path replaces the entry, a relative one is
\* appended after a `/` unless the entry is empty or ends with one
PathJoin(entry, command) ==
    IF command # <<>> /\ command[1] = "/" THEN command
    ELSE IF entry = <<>> \/ entry[Len(entry)] = "/" THEN entry \o command
    ELSE entry \o <<"/">> \o command

\* SimplePathSearcher::new
SimplePathSearcherNew(command, path) ==
    [command |-> command,
     path_iter |-> SplitPaths(IF path.some THEN path.value ELSE <<>>),
     results |-> <<>>]

RECURSIVE FirstFile(_, _, _, _)
\* the loop of next(): the index of the first entry from the i-th on whose
\* candidate is a file, 0 when the entries run out
FirstFile(entries, i, command, files) ==
    IF i > Len(entries) THEN 0
    ELSE IF PathJoin(entries[i], command) \in files THEN i
    ELSE FirstFile(entries, i + 1, command, files)

Running == pc = "run" /\ ip < Len(program)
Op == program[ip + 1]
At(name) == Running /\ Op.op = name

TopFrame == frames[Len(frames)]
TopEnv == envs[Len(envs)]
TopIo == ios[Len(ios)]

\* an operand the machine can read
Readable(o) ==
    o.k # "FrameRelative" \/ (frames # <<>> /\ o.n >= 1 /\ o.n <= Len(TopFrame))
\* an operand the machine can write
Writable(o) ==
    o.k = "FrameRelative" /\ frames # <<>> /\ o.n >= 1 /\ o.n <= Len(TopFrame)

\* Machine::operand
Read(o) ==
    CASE o.k = "Immediate" -> o.v
      [] o.k = "FrameRelative" -> TopFrame[o.n]
      [] o.k = "LastWaitStatus" -> VInt(lastStatus)

\* the frame stack after a write through a FrameRelative operand
Written(o, v) == [frames EXCEPT ![Len(frames)][o.n] = v]

\* a JumpIfZero that reads LastWaitStatus as the Integer of the last status
IsZeroInteger(o) ==
    LET v == Read(o)
    IN \/ v.t = "None"
       \/ v.t = "Integer" /\ v.i = 0
       \/ v.t = "String" /\ v.s = s_empty

\* whether JumpIfZero takes the branch: a command that failed, or a value that
\* is Integer(0), None or the empty string
IsZero(o) ==
    IF o.k = "LastWaitStatus" THEN lastStatus # 0
    ELSE LET v == Read(o)
         IN \/ v.t = "None"
            \/ v.t = "Integer" /\ v.i = 0
            \/ v.t = "String" /\ v.s = s_empty

\* the frame-relative operands of an operation, as the machine reads or writes them
Operands(op) ==
    CASE op.op = "Copy" -> {op.source, op.destination}
      [] op.op = "StringAppend" -> {op.source, op.destination}
      [] op.op = "ListAppend" -> {op.value, op.list}
      [] op.op = "JoinList" -> {op.list, op.destination}
      [] op.op = "GetEnv" -> {op.name, op.target}
      [] op.op = "SetEnv" -> {op.name, op.value}
      [] op.op \in {"IsNone", "IsNoneOrEmptyString"} -> {op.source, op.destination}
      [] op.op = "StringLength" -> {op.string, op.length}
      [] op.op = "TildeExpand" -> {op.name, op.destination}
      [] op.op = "JumpIfZero" -> {op.condition}
      [] op.op = "SpawnCommand" -> {op.argv, op.status}
      [] op.op = "Wait" -> {op.status}
      [] op.op = "OpenFile" -> {op.name}
      [] op.op = "Error" -> {op.message}
      [] op.op = "Exit" -> {op.value}
      [] OTHER -> {}

\* the operation at ip cannot execute: the run ends with an error
Faults(op) ==
    \/ \E o \in Operands(op) : ~Readable(o)
    \/ CASE op.op = "PopFrame" -> frames = <<>>
         [] op.op = "Copy" -> ~Writable(op.destination)
         [] op.op = "StringAppend" ->
                ~Writable(op.destination) \/ Read(op.destination).t # "String"
         [] op.op = "ListAppend" -> ~Writable(op.list) \/ Read(op.list).t # "List"
         [] op.op = "JoinList" -> ~Writable(op.destination) \/ Read(op.list).t # "List"
         [] op.op = "GetEnv" ->
                ~Writable(op.target) \/ envs = <<>> \/ Read(op.name).t # "String"
         [] op.op = "SetEnv" -> envs = <<>> \/ Read(op.name).t # "String"
         [] op.op = "PushEnvironment" -> envs = <<>>
         [] op.op = "PopEnvironment" -> envs = <<>>
         [] op.op \in {"IsNone", "IsNoneOrEmptyString"} -> ~Writable(op.destination)
         [] op.op = "StringLength" ->
                ~Writable(op.length) \/ Read(op.string).t \notin {"None", "String"}
         [] op.op = "TildeExpand" ->
                \/ ~Writable(op.destination)
                \/ ~LookupHomedir(IF Read(op.name).t = "None" THEN None
                                  ELSE Some(Read(op.name).s)).some
         [] op.op = "SpawnCommand" ->
                ~Writable(op.status) \/ Read(op.argv).t # "List" \/ envs = <<>>
         [] op.op = "Wait" -> Read(op.status).t # "WaitableStatus"
         [] op.op \in {"PushIo", "PopIo", "PushPipe"} -> ios = <<>>
         [] op.op = "PopPipe" -> ios = <<>> \/ ~pipeStash.some
         [] op.op = "OpenFile" -> ios = <<>> \/ Read(op.name).t # "List"
         [] op.op = "DupFd" -> ios = <<>> \/ op.src_fd \notin DOMAIN TopIo
         [] op.op = "Exit" -> Read(op.value).t # "Integer"
         [] OTHER -> FALSE

Can(name) == At(name) /\ ~Faults(Op)

\* what an operation leaves alone
Frame(changed) ==
    /\ UNCHANGED <<ast, env0, program>>
    /\ IF "pc" \in changed THEN TRUE ELSE UNCHANGED pc
    /\ IF "frames" \in changed THEN TRUE ELSE UNCHANGED frames
    /\ IF "envs" \in changed THEN TRUE ELSE UNCHANGED envs
    /\ IF "ios" \in changed THEN TRUE ELSE UNCHANGED ios
    /\ IF "pipes" \in changed THEN TRUE ELSE UNCHANGED <<pipeStash, nextPipe>>
    /\ IF "lastStatus" \in changed THEN TRUE ELSE UNCHANGED lastStatus
    /\ IF "spawn" \in changed THEN TRUE ELSE UNCHANGED <<nextChild, spawnLog>>
    /\ IF "events" \in changed THEN TRUE ELSE UNCHANGED events
    /\ IF "stderr" \in changed THEN TRUE ELSE UNCHANGED stderr
    /\ IF "finalStatus" \in changed THEN TRUE ELSE UNCHANGED finalStatus
    /\ UNCHANGED <<searcher, repl, jobs>>
    /\ IF "host" \in changed THEN TRUE ELSE UNCHANGED host

Advance == ip' = ip + 1

PushFrame ==
    /\ Can("PushFrame")
    /\ frames' = Append(frames, [i \in 1..Op.size |-> VNone])
    /\ Advance /\ Frame({"frames"})

PopFrame ==
    /\ Can("PopFrame")
    /\ frames' = SubSeq(frames, 1, Len(frames) - 1)
    /\ Advance /\ Frame({"frames"})

CopyOp ==
    /\ Can("Copy")
    /\ frames' = Written(Op.destination, Read(Op.source))
    /\ Advance /\ Frame({"frames"})

StringAppend ==
    /\ Can("StringAppend")
    /\ frames' = Written(Op.destination,
                         VStr(Read(Op.destination).s \o StringOf(Read(Op.source))))
    /\ Advance /\ Frame({"frames"})

\* a ListAppend that ignores its split flag
ListAppendedWhole(list, value, split) == Append(list, VStr(value))

\* the list after ListAppend: one element per field of a value that is subject
\* to splitting (test_param_get, test_param_get_default), else the value itself
ListAppended(list, value, split) ==
    IF split THEN list \o [i \in 1..Len(SplitFields(value)) |-> VStr(SplitFields(value)[i])]
    ELSE Append(list, VStr(value))

ListAppend ==
    /\ Can("ListAppend")
    /\ frames' = Written(Op.list, VList(ListAppended(Read(Op.list).l,
                                                   StringOf(Read(Op.value)), Op.split)))
    /\ Advance /\ Frame({"frames"})

JoinList ==
    /\ Can("JoinList")
    /\ LET l == Read(Op.list).l
       IN frames' = Written(Op.destination,
                            VStr(Join([i \in 1..Len(l) |-> StringOf(l[i])])))
    /\ Advance /\ Frame({"frames"})

GetEnv ==
    /\ Can("GetEnv")
    /\ LET name == Read(Op.name).s
       IN frames' = Written(Op.target, IF EnvIsSet(TopEnv, name)
                                       THEN VStr(TopEnv[name]) ELSE VNone)
    /\ Advance /\ Frame({"frames"})

SetEnv ==
    /\ Can("SetEnv")
    /\ envs' = [envs EXCEPT ![Len(envs)] =
                   EnvSet(@, Read(Op.name).s, StringOf(Read(Op.value)))]
    /\ Advance /\ Frame({"envs"})

PushEnvironment ==
    /\ Can("PushEnvironment")
    /\ envs' = Append(envs, TopEnv)
    /\ Advance /\ Frame({"envs"})

PopEnvironment ==
    /\ Can("PopEnvironment")
    /\ envs' = SubSeq(envs, 1, Len(envs) - 1)
    /\ Advance /\ Frame({"envs"})

IsNone ==
    /\ Can("IsNone")
    /\ frames' = Written(Op.destination,
                         VInt(IF Read(Op.source).t = "None" THEN 1 ELSE 0))
    /\ Advance /\ Frame({"frames"})

IsNoneOrEmptyString ==
    /\ Can("IsNoneOrEmptyString")
    /\ LET v == Read(Op.source)
       IN frames' = Written(Op.destination,
                            VInt(IF v.t = "None" \/ (v.t = "String" /\ v.s = s_empty)
                                 THEN 1 ELSE 0))
    /\ Advance /\ Frame({"frames"})

StringLength ==
    /\ Can("StringLength")
    /\ LET v == Read(Op.string)
       IN frames' = Written(Op.length, VInt(IF v.t = "None" THEN 0 ELSE Len(v.s)))
    /\ Advance /\ Frame({"frames"})

TildeExpand ==
    /\ Can("TildeExpand")
    /\ LET v == Read(Op.name)
           home == LookupHomedir(IF v.t = "None" THEN None ELSE Some(v.s))
       IN frames' = Written(Op.destination, VStr(home.value))
    /\ Advance /\ Frame({"frames"})

JumpIfZero ==
    /\ Can("JumpIfZero")
    /\ ip' = IF IsZero(Op.condition) THEN Op.target ELSE ip + 1
    /\ Frame({})

Jump ==
    /\ Can("Jump")
    /\ ip' = Op.target
    /\ Frame({})

\* the texts of a list of string values
Texts(l) == [i \in 1..Len(l) |-> StringOf(l[i])]

SpawnCommand ==
    /\ Can("SpawnCommand")
    /\ LET argv == Texts(Read(Op.argv).l)
           code == HostExitCode(argv)
       IN IF code < 0
          THEN /\ frames' = Written(Op.status, VWait(0, SpawnErrorStatus))
               /\ events' = Append(events, [e |-> "spawn_failed", id |-> 0])
               /\ UNCHANGED <<nextChild, spawnLog>>
          ELSE /\ frames' = Written(Op.status, VWait(nextChild + 1, code))
               /\ nextChild' = nextChild + 1
               /\ spawnLog' = Append(spawnLog, [argv |-> argv, environment |-> TopEnv,
                                                stdin |-> TopIo[0], stdout |-> TopIo[1]])
               /\ events' = Append(events, [e |-> "spawn", id |-> nextChild + 1])
    /\ Advance /\ Frame({"frames", "spawn", "events"})

Wait ==
    /\ Can("Wait")
    /\ lastStatus' = Read(Op.status).code
    /\ events' = Append(events, [e |-> "wait", id |-> Read(Op.status).id])
    /\ Advance /\ Frame({"lastStatus", "events"})

\* an InvertLastWait for which only the status 1 is a failure
InvertLastWaitOnlyOne ==
    /\ Can("InvertLastWait")
    /\ lastStatus' = IF lastStatus = 1 THEN 0 ELSE 1
    /\ events' = Append(events, [e |-> "invert", id |-> 0])
    /\ Advance /\ Frame({"lastStatus", "events"})

InvertLastWait ==
    /\ Can("InvertLastWait")
    /\ lastStatus' = IF lastStatus # 0 THEN 0 ELSE 1
    /\ events' = Append(events, [e |-> "invert", id |-> 0])
    /\ Advance /\ Frame({"lastStatus", "events"})

PushIo ==
    /\ Can("PushIo")
    /\ ios' = Append(ios, TopIo)
    /\ Advance /\ Frame({"ios"})

PopIo ==
    /\ Can("PopIo")
    /\ ios' = SubSeq(ios, 1, Len(ios) - 1)
    /\ Advance /\ Frame({"ios"})

OpenFile ==
    /\ Can("OpenFile")
    /\ ios' = [ios EXCEPT ![Len(ios)] =
                  AssignFd(@, Op.fd_number, File(Join(Texts(Read(Op.name).l))))]
    /\ Advance /\ Frame({"ios"})

DupFd ==
    /\ Can("DupFd")
    /\ ios' = [ios EXCEPT ![Len(ios)] = AssignFd(@, Op.dest_fd, TopIo[Op.src_fd])]
    /\ Advance /\ Frame({"ios"})

PushPipe ==
    /\ Can("PushPipe")
    /\ nextPipe' = nextPipe + 1
    /\ ios' = [ios EXCEPT ![Len(ios)] = AssignFd(@, 1, PipeWrite(nextPipe + 1))]
    /\ pipeStash' = Some(PipeRead(nextPipe + 1))
    /\ Advance /\ Frame({"ios", "pipes"})

PopPipe ==
    /\ Can("PopPipe")
    /\ ios' = [ios EXCEPT ![Len(ios)] = AssignFd(@, 0, pipeStash.value)]
    /\ pipeStash' = None
    /\ UNCHANGED nextPipe
    /\ Advance /\ Frame({"ios", "pipes"})

\* an Error that lets the machine go on with the following instruction
ErrorContinues ==
    /\ Can("Error")
    /\ stderr' = stderr \o StringOf(Read(Op.message))
    /\ lastStatus' = 1
    /\ events' = Append(events, [e |-> "error", id |-> 0])
    /\ Advance /\ Frame({"stderr", "lastStatus", "events"})

\* Error writes the message, sets the status to 1 and ends the run with it:
\* `echo ${foo:?bar}` returns Complete(1) with an empty spawn log
\* (test_param_check_set)
ErrorOp ==
    /\ Can("Error")
    /\ stderr' = stderr \o StringOf(Read(Op.message))
    /\ lastStatus' = 1
    /\ events' = Append(events, [e |-> "error", id |-> 0])
    /\ finalStatus' = 1
    /\ pc' = "done"
    /\ UNCHANGED ip
    /\ Frame({"stderr", "lastStatus", "events", "finalStatus", "pc"})

\* Exit, or the end of the program, which the machine treats as
\* Exit{LastWaitStatus}
Exit ==
    /\ pc = "run"
    /\ IF ip = Len(program) THEN TRUE ELSE Can("Exit")
    /\ finalStatus' = IF ip = Len(program) THEN lastStatus ELSE Read(Op.value).i
    /\ pc' = "done"
    /\ UNCHANGED ip
    /\ Frame({"finalStatus", "pc"})

\* a runtime error: Machine::run returns Err
Fault ==
    /\ pc = "run"
    /\ ip > Len(program) \/ (ip < Len(program) /\ Faults(Op))
    /\ pc' = "machine_error"
    /\ UNCHANGED ip
    /\ Frame({"pc"})

\* test::compile and Machine::new: compile_command, finish, and a machine at
\* the start of the program; a compile error ends the run
CompileAndLoad ==
    /\ pc = "parsed"
    /\ LET c == Compile(ast)
       IN IF c.err THEN pc' = "compile_error" /\ program' = <<>>
          ELSE pc' = "run" /\ program' = Finish(c)
    /\ UNCHANGED <<ast, env0, ip, frames, envs, ios, pipeStash, nextPipe, lastStatus,
                   nextChild, spawnLog, events, stderr, finalStatus, searcher,
                   host, repl, jobs>>

-----------------------------------------------------------------------------
(* The command trees and environments the model runs *)

\* the sequences of 1..n elements of S
SeqsUpTo(S, n) == UNION {[1..k -> S] : k \in 1..n}

w_echo == <<Lit(s_echo)>>
w_bar == <<Lit(s_bar)>>
w_baz == <<Lit(s_baz)>>

\* the words after the operator of a parameter expansion: none, `bar`,
\* `bar baz`, `$bar`
DefaultWords ==
    {<<>>, <<w_bar>>, <<w_bar, w_baz>>,
     << <<Param(ParamExpr(s_bar, "Get", FALSE, <<>>), TRUE)>> >>}

ParamExprs ==
    {ParamExpr(s_foo, "Get", FALSE, <<>>), ParamExpr(s_foo, "StringLength", FALSE, <<>>)}
    \cup {ParamExpr(s_foo, kind, allow_null, word) :
            kind \in {"GetDefault", "AssignDefault", "CheckSet", "AlternativeValue"},
            allow_null \in BOOLEAN, word \in DefaultWords}

\* `$foo`, `${foo:-bar}`, ... unquoted and inside double quotes
ParamWords == {<<Param(expr, splittable)>> : expr \in ParamExprs, splittable \in BOOLEAN}

\* no assignment, `foo=1`, `foo=`, `foo="a b"`
Assignments ==
    {<<>>, <<Assignment(s_foo, <<Lit(s_1)>>)>>, <<Assignment(s_foo, <<>>)>>,
     <<Assignment(s_foo, <<Quoted(s_a_b)>>)>>}

\* `[foo=...] echo <parameter expansion>`
ParamCommands == {Simple(a, <<w_echo, w>>) : a \in Assignments, w \in ParamWords}

\* words of two components, one of them quoted: `$foo""` and `a"$foo"`
MixedWords ==
    {<<Param(ParamExpr(s_foo, "Get", FALSE, <<>>), TRUE), Quoted(s_empty)>>,
     <<Lit(s_a), Param(ParamExpr(s_foo, "Get", FALSE, <<>>), FALSE)>>}

\* `${bar:?baz}` as the first, the second and the third word of a command:
\* `${bar:?baz}`, `${bar:?baz} echo`, `echo ${bar:?baz} hello`,
\* `echo "a b" ${bar:?baz}`
w_check == <<Param(ParamExpr(s_bar, "CheckSet", FALSE, <<w_baz>>), TRUE)>>

CheckSetCommands ==
    {Simple(<<>>, words) :
        words \in {<<w_check>>, <<w_check, w_echo>>, <<w_echo, w_check, <<Lit(s_hello)>> >>,
                   <<w_echo, <<Quoted(s_a_b)>>, w_check>>}}

MixedCommands == {Simple(a, <<w_echo, w>>) : a \in Assignments, w \in MixedWords}

\* words made of literals only: an unquoted literal has no whitespace and is
\* not empty, a quoted one may
LiteralWords ==
    {w_echo, <<Lit(s_hello)>>, <<Quoted(s_a_b)>>, <<Quoted(s_empty)>>,
     <<Lit(s_a), Quoted(s_a_b)>>}

LiteralCommands == {Simple(<<>>, words) : words \in SeqsUpTo(LiteralWords, MaxWords)}

c_true == Simple(<<>>, << <<Lit(s_true)>> >>)
c_false == Simple(<<>>, << <<Lit(s_false)>> >>)
c_echo_foo == Simple(<<>>, <<w_echo, <<Param(ParamExpr(s_foo, "Get", FALSE, <<>>), FALSE)>> >>)
c_set_foo == Simple(<<Assignment(s_foo, <<Lit(s_1)>>)>>, <<>>)
c_scoped == Simple(<<Assignment(s_foo, w_bar)>>,
                   <<w_echo, <<Param(ParamExpr(s_foo, "Get", FALSE, <<>>), TRUE)>> >>)
c_async_false == Async(c_false)

SmallCommands == {c_true, c_false, c_echo_foo, c_set_foo, c_scoped, c_async_false}

SmallLists == SeqsUpTo(SmallCommands, MaxList)

ListCommands ==
    {Plain(ListType(type, l)) : type \in {"Program", "BraceGroup"}, l \in SmallLists}

PipelineCommands ==
    {Plain(PipelineType(l, inverted)) : l \in SmallLists \cup {<<>>}, inverted \in BOOLEAN}

\* pipelines of three stages: `a | b | c`
LongPipelines ==
    {Plain(PipelineType(<<a, b, c>>, FALSE)) : a \in {c_true, c_false},
                                               b \in {c_true, c_echo_foo},
                                               c \in {c_true, c_false}}

\* a command the host does not know exits with 2: `! hello`, `! true | hello`
c_hello == Simple(<<>>, << <<Lit(s_hello)>> >>)

InvertedUnknown ==
    {Plain(PipelineType(<<c_hello>>, TRUE)), Plain(PipelineType(<<c_true, c_hello>>, TRUE))}

\* a pipeline inside a stage of a pipeline, in a brace group or directly:
\* `{ true | echo "$foo"; } | true`, `true | { true | echo "$foo"; }`,
\* `true | { true | echo "$foo"; } | false`
c_inner_pipe == Plain(PipelineType(<<c_true, c_echo_foo>>, FALSE))
c_group_pipe == Plain(ListType("BraceGroup", <<c_inner_pipe>>))

NestedPipelines ==
    {Plain(PipelineType(l, FALSE)) :
        l \in UNION {{<<g, c_true>>, <<c_true, g>>, <<c_true, g, c_false>>} :
                        g \in {c_inner_pipe, c_group_pipe}}}

OptionalSmall == {None} \cup {Some(<<x>>) : x \in SmallCommands}

IfCommands ==
    {Plain(IfType(<<condition>>, true_part, false_part)) :
        condition \in {c_true, c_false, c_set_foo},
        true_part \in OptionalSmall, false_part \in OptionalSmall}

\* compound commands to nest inside others
MidCommands ==
    {AndIf(c_true, c_false), OrIf(c_false, c_echo_foo),
     Plain(PipelineType(<<c_true, c_false>>, TRUE)),
     Plain(ListType("BraceGroup", <<c_false, c_set_foo>>)), c_true}

NestedCommands ==
    {Plain(ListType("BraceGroup", l)) : l \in SeqsUpTo(MidCommands, MaxList)}
    \cup {Plain(IfType(<<c>>, Some(<<t>>), Some(<<f>>))) :
            c \in MidCommands, t \in MidCommands, f \in MidCommands}

r_out == FileRedirection(<<Lit(s_out)>>, 1)
r_default == FileRedirection(<<Param(ParamExpr(s_bar, "AssignDefault", FALSE, <<w_baz>>), FALSE)>>, 1)
r_dup == FdRedirection(1, 2)
\* `<out`, `2>>out`, `>|out`
r_in == [FileRedirection(<<Lit(s_out)>>, 0) EXCEPT !.input = TRUE, !.output = FALSE]
r_append == [FileRedirection(<<Lit(s_out)>>, 2) EXCEPT !.append = TRUE]
r_clobber == [FileRedirection(<<Lit(s_out)>>, 1) EXCEPT !.clobber = TRUE]

RedirectedCommands ==
    {Command(SimpleType(a, <<w_echo, <<Lit(s_hello)>> >>, inner), outer, FALSE) :
        a \in {<<>>, <<Assignment(s_foo, <<Lit(s_1)>>)>>},
        inner \in {<<>>, <<r_out>>, <<r_default, r_dup>>, <<r_in, r_append>>},
        outer \in {<<>>, <<r_dup>>, <<r_clobber>>}}
    \cup {Command(ListType("BraceGroup", <<c_true, c_echo_foo>>), <<r_out, r_dup>>, FALSE)}

\* a command with redirections or pipes, then `true`:
\* `echo hello >out; true`, `foo=1 echo hello 1>&2; true`, `true | false; true`,
\* `{ true; echo "$foo"; } >out 1>&2; true`
FollowedCommands ==
    {Plain(ListType("Program", <<first, c_true>>)) :
        first \in {Command(SimpleType(<<>>, <<w_echo, <<Lit(s_hello)>> >>, <<r_out>>),
                           <<>>, FALSE),
                   Command(SimpleType(<<Assignment(s_foo, <<Lit(s_1)>>)>>,
                                      <<w_echo, <<Lit(s_hello)>> >>, <<>>),
                           <<r_dup>>, FALSE),
                   Plain(PipelineType(<<c_true, c_false>>, FALSE)),
                   Command(ListType("BraceGroup", <<c_true, c_echo_foo>>),
                           <<r_out, r_dup>>, FALSE)}}

TildeCommands ==
    {Simple(<<>>, <<w_echo, <<Tilde(name)>> >>) :
        name \in {None, Some(s_wez), Some(s_one), Some(s_bob)}}

\* constructs the compiler rejects
c_substitution == Simple(<<>>, <<w_echo, <<CommandSubstitution>> >>)
c_subshell == Plain([type |-> "Subshell", list |-> CompoundOf(<<c_true>>)])
c_remove == Simple(<<>>, <<w_echo,
                <<Param(ParamExpr(s_foo, "RemoveSmallestSuffixPattern", FALSE, <<w_bar>>), TRUE)>> >>)

\* words with a construct the compiler rejects: `$(...)`, `${foo%bar}`,
\* `${foo%%bar}`, `${foo#bar}`, `${foo##bar}`, and `${foo:-$(...)}`,
\* `${foo:=$(...)}`, `${foo:?$(...)}`, `${foo:+$(...)}`
UnsupportedWords ==
    {<<CommandSubstitution>>, <<Lit(s_a), CommandSubstitution>>}
    \cup {<<Param(ParamExpr(s_foo, kind, FALSE, <<w_bar>>), TRUE)>> :
             kind \in {"RemoveSmallestSuffixPattern", "RemoveLargestSuffixPattern",
                       "RemoveSmallestPrefixPattern", "RemoveLargestPrefixPattern"}}
    \cup {<<Param(ParamExpr(s_foo, kind, FALSE, <<w_bar, <<CommandSubstitution>> >>), FALSE)>> :
             kind \in {"GetDefault", "AssignDefault", "CheckSet", "AlternativeValue"}}

\* a rejected word as a word, an assignment value or a redirection file name
\* of a simple command, or the file name of an outer redirection; command
\* kinds the compiler does not handle
UnsupportedSimple ==
    {Simple(<<>>, <<w_echo, w>>) : w \in UnsupportedWords}
    \cup {Simple(<<Assignment(s_foo, w)>>, <<w_echo>>) : w \in UnsupportedWords}
    \cup {Simple(<<Assignment(s_foo, w)>>, <<>>) : w \in UnsupportedWords}
    \cup {Command(SimpleType(<<>>, <<w_echo>>, <<FileRedirection(w, 1)>>), <<>>, FALSE) :
             w \in UnsupportedWords}
    \cup {Command(SimpleType(<<>>, <<w_echo>>, <<>>), <<r_dup, FileRedirection(w, 1)>>, FALSE) :
             w \in UnsupportedWords}
    \cup {Plain([type |-> kind, list |-> CompoundOf(<<c_true>>)]) :
             kind \in {"Subshell", "Case"}}

\* rejected commands to nest
UnsupportedSample ==
    {c_substitution, c_subshell, c_remove,
     Simple(<<Assignment(s_foo, <<CommandSubstitution>>)>>, <<w_echo>>),
     Command(SimpleType(<<>>, <<w_echo>>, <<FileRedirection(<<CommandSubstitution>>, 1)>>),
             <<>>, FALSE)}

\* a rejected command as the condition or a branch of an If, as a stage of a
\* pipeline, alone in a pipeline, in a brace group, and two levels deep
UnsupportedNested ==
    UNION {{Plain(IfType(<<b>>, Some(<<c_true>>), None)),
            Plain(IfType(<<c_true>>, Some(<<b>>), None)),
            Plain(IfType(<<c_false>>, Some(<<c_true>>), Some(<<c_true, b>>))),
            Plain(PipelineType(<<b, c_true>>, FALSE)),
            Plain(PipelineType(<<c_true, b>>, TRUE)),
            Plain(PipelineType(<<b>>, FALSE)),
            Plain(ListType("BraceGroup", <<c_true, b>>)),
            Plain(ListType("Program", <<b, c_true>>)),
            Plain(ListType("BraceGroup",
                           <<Plain(IfType(<<c_true>>, None,
                                          Some(<<Plain(PipelineType(<<c_true, b>>, FALSE))>>)))>>))} :
           b \in UnsupportedSample}

UnsupportedCommands ==
    {c_substitution, c_subshell, c_remove, AndIf(c_true, c_subshell),
     Plain(PipelineType(<<c_true, c_substitution>>, FALSE))}
    \cup UnsupportedSimple \cup UnsupportedNested

Commands ==
    ParamCommands \cup MixedCommands \cup LiteralCommands \cup ListCommands \cup PipelineCommands
    \cup LongPipelines \cup NestedPipelines \cup InvertedUnknown \cup FollowedCommands \cup CheckSetCommands
    \cup IfCommands \cup NestedCommands \cup RedirectedCommands \cup TildeCommands
    \cup UnsupportedCommands

\* the initial environments: empty, foo set to the empty string, foo and bar set
Environments ==
    {EmptyEnvironment, EnvSet(EmptyEnvironment, s_foo, s_empty),
     EnvSet(EnvSet(EmptyEnvironment, s_foo, s_1), s_bar, s_a_b)}

-----------------------------------------------------------------------------
(* Specification *)

Init ==
    /\ pc = "parsed"
    /\ ast \in Commands
    /\ env0 \in Environments
    /\ program = <<>>
    /\ ip = 0
    /\ frames = <<>>
    /\ envs = <<env0>>
    /\ ios = <<InitialIo>>
    /\ pipeStash = None
    /\ nextPipe = 0
    /\ lastStatus = 0
    /\ nextChild = 0
    /\ spawnLog = <<>>
    /\ events = <<>>
    /\ stderr = <<>>
    /\ finalStatus = -1
    /\ searcher = NoSearcher
    /\ host = NoHost /\ repl = NoRepl /\ jobs = NoJobs

Next ==
    \/ CompileAndLoad
    \/ PushFrame \/ PopFrame \/ CopyOp \/ StringAppend \/ ListAppend \/ JoinList
    \/ GetEnv \/ SetEnv \/ PushEnvironment \/ PopEnvironment
    \/ IsNone \/ IsNoneOrEmptyString \/ StringLength \/ TildeExpand
    \/ JumpIfZero \/ Jump
    \/ SpawnCommand \/ Wait \/ InvertLastWait
    \/ PushIo \/ PopIo \/ OpenFile \/ DupFd \/ PushPipe \/ PopPipe
    \/ ErrorOp \/ Exit \/ Fault

Spec == Init /\ [][Next]_vars

-----------------------------------------------------------------------------
(* The machine on a program that is given to it directly *)

MaxChars == 3

\* the characters of the lists to join: a letter and the separator itself
Chars == {"a", " "}

\* a list of single-character strings to join, and the name of a command
\* whose exit code becomes the last wait status: 0, 1 or 2
MachineInputs ==
    [list : UNION {[1..n -> Chars] : n \in 0..MaxChars},
     name : {s_true, s_false, s_hello}]

\* JoinList then StringLength on the list, then the command, waited on, and
\* InvertLastWait twice
MachineProgram(input) ==
    << [op |-> "PushFrame", size |-> 5],
       Copy(Immediate(VList([i \in 1..Len(input.list) |-> VStr(<<input.list[i]>>)])),
            FrameRelative(1)),
       [op |-> "JoinList", list |-> FrameRelative(1), destination |-> FrameRelative(2)],
       [op |-> "StringLength", string |-> FrameRelative(2), length |-> FrameRelative(3)],
       Copy(Immediate(VList(<<VStr(input.name)>>)), FrameRelative(4)),
       [op |-> "SpawnCommand", argv |-> FrameRelative(4), status |-> FrameRelative(5)],
       [op |-> "Wait", status |-> FrameRelative(5)],
       [op |-> "InvertLastWait"],
       [op |-> "InvertLastWait"],
       [op |-> "Exit", value |-> LastWaitStatus] >>

InitMachine ==
    /\ pc = "run"
    /\ ast \in MachineInputs
    /\ env0 = EmptyEnvironment
    /\ program = MachineProgram(ast)
    /\ ip = 0
    /\ frames = <<>>
    /\ envs = <<env0>>
    /\ ios = <<InitialIo>>
    /\ pipeStash = None
    /\ nextPipe = 0
    /\ lastStatus = 0
    /\ nextChild = 0
    /\ spawnLog = <<>>
    /\ events = <<>>
    /\ stderr = <<>>
    /\ finalStatus = -1
    /\ searcher = NoSearcher
    /\ host = NoHost /\ repl = NoRepl /\ jobs = NoJobs

NextMachine ==
    \/ PushFrame \/ CopyOp \/ JoinList \/ StringLength
    \/ SpawnCommand \/ Wait \/ InvertLastWait \/ Exit

SpecMachine == InitMachine /\ [][NextMachine]_vars

-----------------------------------------------------------------------------
(* The machine with a host whose children run beside it, over pipes that   *)
(* hold a bounded number of units of data                                  *)

\* the number of units a pipe holds
PipeCapacity == 1
\* the largest number of units a child writes to its standard output
MaxOutput == 2

\* pipelines of two and of three synchronous simple commands
ConcurrentPipelines ==
    {Plain(PipelineType(l, FALSE)) :
        l \in {<<c_true, c_true>>, <<c_true, c_false>>, <<c_false, c_true, c_true>>}}

\* the pipes a pipeline of the largest length creates
Pipes == 1..2

\* the descriptors the machine holds: those of its I/O environments and the
\* stashed read end
MachineHolds(handle) ==
    \/ pipeStash = Some(handle)
    \/ \E k \in 1..Len(ios) : \E fd \in DOMAIN ios[k] : ios[k][fd] = handle

\* some process holds the write end, the read end, of pipe n
WriteOpen(n) ==
    \/ MachineHolds(PipeWrite(n))
    \/ \E i \in 1..Len(host.children) :
          host.children[i].state = "running" /\ host.children[i].stdout = PipeWrite(n)
ReadOpen(n) ==
    \/ MachineHolds(PipeRead(n))
    \/ \E i \in 1..Len(host.children) :
          host.children[i].state = "running" /\ host.children[i].stdin = PipeRead(n)

\* spawn_command of a host that starts the child and returns: the child has
\* the standard input and output of the I/O environment and some number of
\* units to write, and has read nothing yet
ConcurrentSpawn ==
    /\ Can("SpawnCommand")
    /\ \E out \in 0..MaxOutput :
          host' = [host EXCEPT !.children =
                      Append(@, [stdin |-> TopIo[0], stdout |-> TopIo[1], out |-> out,
                                 read |-> 0, state |-> "running"])]
    /\ frames' = Written(Op.status,
                         VWait(nextChild + 1, HostExitCode(Texts(Read(Op.argv).l))))
    /\ nextChild' = nextChild + 1
    /\ spawnLog' = Append(spawnLog, [argv |-> Texts(Read(Op.argv).l), environment |-> TopEnv,
                                     stdin |-> TopIo[0], stdout |-> TopIo[1]])
    /\ events' = Append(events, [e |-> "spawn", id |-> nextChild + 1])
    /\ Advance /\ Frame({"frames", "spawn", "events", "host"})

\* Wait blocks the machine until the child has exited
ConcurrentWait ==
    /\ Can("Wait")
    /\ host.children[Read(Op.status).id].state = "exited"
    /\ lastStatus' = Read(Op.status).code
    /\ events' = Append(events, [e |-> "wait", id |-> Read(Op.status).id])
    /\ Advance /\ Frame({"lastStatus", "events"})

\* only the host changes
OnlyHost ==
    UNCHANGED <<pc, ast, env0, program, ip, frames, envs, ios, pipeStash, nextPipe,
                lastStatus, nextChild, spawnLog, events, stderr, finalStatus, searcher,
                repl, jobs>>

\* child i writes one unit: into its pipe if there is room, and the write
\* blocks if there is none; a pipe that nobody reads ends the child
ChildWrite(i) ==
    /\ host.children[i].state = "running" /\ host.children[i].out > 0
    /\ IF host.children[i].stdout.kind # "pipe_write"
       THEN host' = [host EXCEPT !.children[i].out = @ - 1]
       ELSE IF ~ReadOpen(host.children[i].stdout.id)
       THEN host' = [host EXCEPT !.children[i].out = 0, !.children[i].state = "exited"]
       ELSE /\ host.fill[host.children[i].stdout.id] < PipeCapacity
            /\ host' = [host EXCEPT !.children[i].out = @ - 1,
                                    !.fill[host.children[i].stdout.id] = @ + 1]
    /\ OnlyHost

\* child i reads one unit from the pipe that is its standard input
ChildRead(i) ==
    /\ host.children[i].state = "running"
    /\ host.children[i].stdin.kind = "pipe_read"
    /\ host.fill[host.children[i].stdin.id] > 0
    /\ host' = [host EXCEPT !.fill[host.children[i].stdin.id] = @ - 1,
                            !.children[i].read = @ + 1]
    /\ OnlyHost

\* child i exits: it has written its output and has read its input to the
\* end, which it sees once the pipe is empty and no write end is open
ChildExit(i) ==
    /\ host.children[i].state = "running" /\ host.children[i].out = 0
    /\ host.children[i].stdin.kind = "pipe_read" =>
          /\ host.fill[host.children[i].stdin.id] = 0
          /\ ~WriteOpen(host.children[i].stdin.id)
    /\ host' = [host EXCEPT !.children[i].state = "exited"]
    /\ OnlyHost

\* the children a pipeline of the largest length starts
ChildIds == 1..3

\* a step of one of the children that were started
ChildWrites == \E i \in ChildIds : i <= Len(host.children) /\ ChildWrite(i)
ChildReads == \E i \in ChildIds : i <= Len(host.children) /\ ChildRead(i)
ChildExits == \E i \in ChildIds : i <= Len(host.children) /\ ChildExit(i)

InitPipe ==
    /\ pc = "run"
    /\ ast \in ConcurrentPipelines
    /\ env0 = EmptyEnvironment
    /\ program = Finish(Compile(ast))
    /\ ip = 0
    /\ frames = <<>>
    /\ envs = <<env0>>
    /\ ios = <<InitialIo>>
    /\ pipeStash = None
    /\ nextPipe = 0
    /\ lastStatus = 0
    /\ nextChild = 0
    /\ spawnLog = <<>>
    /\ events = <<>>
    /\ stderr = <<>>
    /\ finalStatus = -1
    /\ searcher = NoSearcher
    /\ host = [children |-> <<>>, fill |-> [n \in Pipes |-> 0]]
    /\ repl = NoRepl /\ jobs = NoJobs

NextPipe ==
    \/ PushFrame \/ PopFrame \/ CopyOp \/ StringAppend \/ ListAppend
    \/ PushIo \/ PopIo \/ PushPipe \/ PopPipe
    \/ ConcurrentSpawn \/ ConcurrentWait \/ Exit
    \/ ChildWrites \/ ChildReads \/ ChildExits

SpecPipe == InitPipe /\ [][NextPipe]_vars

-----------------------------------------------------------------------------
(* A SimplePathSearcher that is iterated *)

\* largest length of the PATH string
MaxPath == 3
\* largest number of calls of next()
MaxCalls == 4

s_c == <<"c">>
s_slash_c == <<"/", "c">>

\* the PATH strings: absent, or made of the directory names a and b and the
\* separator
PathStrings ==
    {None} \cup {Some(p) : p \in UNION {[1..n -> {"a", "b", ":"}] : n \in 0..MaxPath}}

\* the file systems: which of a/c, b/c, c (in the current directory) and /c
\* are files; every other path is not
FileSystems == SUBSET {<<"a", "/", "c">>, <<"b", "/", "c">>, s_c, s_slash_c}

\* a command, relative or absolute, a PATH and a file system
SearchInputs == [command : {s_c, s_slash_c}, path : PathStrings, files : FileSystems]

\* a next() that gives up at the first entry whose candidate is not a file
SearcherNextStopsAtMiss ==
    /\ pc = "search" /\ Len(searcher.results) < MaxCalls
    /\ searcher' =
          IF /\ searcher.path_iter # <<>>
             /\ PathJoin(searcher.path_iter[1], searcher.command) \in ast.files
          THEN [searcher EXCEPT
                  !.path_iter = SubSeq(@, 2, Len(@)),
                  !.results = Append(@, Some(PathJoin(searcher.path_iter[1],
                                                    searcher.command)))]
          ELSE [searcher EXCEPT !.path_iter = <<>>, !.results = Append(@, None)]
    /\ UNCHANGED <<pc, ast, env0, program, ip, frames, envs, ios, pipeStash, nextPipe,
                   lastStatus, nextChild, spawnLog, events, stderr, finalStatus,
                   host, repl, jobs>>

\* Iterator::next of SimplePathSearcher: the entries are taken from path_iter
\* until a candidate is a file, which is returned, or until there is none
\* left, and None is returned
SearcherNext ==
    /\ pc = "search" /\ Len(searcher.results) < MaxCalls
    /\ LET found == FirstFile(searcher.path_iter, 1, searcher.command, ast.files)
       IN searcher' =
             IF found = 0
             THEN [searcher EXCEPT !.path_iter = <<>>, !.results = Append(@, None)]
             ELSE [searcher EXCEPT
                     !.path_iter = SubSeq(@, found + 1, Len(@)),
                     !.results = Append(@, Some(PathJoin(searcher.path_iter[found],
                                                       searcher.command)))]
    /\ UNCHANGED <<pc, ast, env0, program, ip, frames, envs, ios, pipeStash, nextPipe,
                   lastStatus, nextChild, spawnLog, events, stderr, finalStatus,
                   host, repl, jobs>>

InitSearch ==
    /\ pc = "search"
    /\ ast \in SearchInputs
    /\ searcher = SimplePathSearcherNew(ast.command, ast.path)
    /\ host = NoHost /\ repl = NoRepl /\ jobs = NoJobs
    /\ env0 = EmptyEnvironment
    /\ program = <<>>
    /\ ip = 0
    /\ frames = <<>>
    /\ envs = <<env0>>
    /\ ios = <<InitialIo>>
    /\ pipeStash = None
    /\ nextPipe = 0
    /\ lastStatus = 0
    /\ nextChild = 0
    /\ spawnLog = <<>>
    /\ events = <<>>
    /\ stderr = <<>>
    /\ finalStatus = -1

NextSearch == SearcherNext

SpecSearch == InitSearch /\ [][NextSearch]_vars

-----------------------------------------------------------------------------
(* The read-eval-print loop *)

\* the longest pending input, in characters
MaxInput == 5

\* the lines the line editor returns; a line holds no newline
Lines == {<<>>, <<"a">>, <<"'", "a">>}

LexErrorKinds ==
    {"EofDuringBackslash", "EofDuringComment", "EofDuringSingleQuotedString",
     "EofDuringDoubleQuotedString", "EofDuringAssignmentWord",
     "EofDuringCommandSubstitution", "EofDuringParameterExpansion", "IoError"}

\* the errors compile_and_run returns: those of the lexer and of the parser,
\* and every other error (of the compiler, of Machine::new, of the run)
LexError(kind) == [type |-> "LexError", kind |-> kind]
UnexpectedToken == [type |-> "ParseErrorKind", kind |-> "UnexpectedToken"]
OtherError == [type |-> "Error", kind |-> "other"]

ParseErrors == {LexError(k) : k \in LexErrorKinds} \cup {UnexpectedToken}

is_recoverable_also_io_error(e) ==
    IF e.type = "LexError" THEN TRUE ELSE FALSE

is_recoverable_parse_error(e) ==
    IF e.type = "LexError"
    THEN IF e.kind \in {"EofDuringBackslash", "EofDuringComment",
                        "EofDuringSingleQuotedString", "EofDuringDoubleQuotedString",
                        "EofDuringAssignmentWord", "EofDuringCommandSubstitution",
                        "EofDuringParameterExpansion"}
         THEN TRUE
         ELSE FALSE
    ELSE IF e.type = "ParseErrorKind"
    THEN FALSE
    ELSE FALSE

EnvBits(cwd, env) == [cwd |-> cwd, env |-> env]

\* the working directories and environments a run can leave at the top
Directories == {"/", "/tmp"}
TopEnvironments ==
    {EnvBits(d, e) : d \in Directories,
                     e \in {EmptyEnvironment, EnvSet(EmptyEnvironment, s_foo, s_1)}}

\* a Fallible<Status>
NoError == [type |-> "none", kind |-> "none"]
Ok(status) == [ok |-> TRUE, status |-> status, error |-> NoError]
Err(e) == [ok |-> FALSE, status |-> 0 - 1, error |-> e]

\* what happens inside compile_and_run: the step that fails, with its error,
\* or a machine that is constructed and run, with the result of the run and
\* the top environment it leaves
Outcomes ==
    {[fails |-> "parse", result |-> Err(e), top |-> t] :
        e \in ParseErrors, t \in {EnvBits("/", EmptyEnvironment)}}
    \cup {[fails |-> s, result |-> Err(OtherError), top |-> t] :
        s \in {"compile_command", "finish", "Machine::new"},
        t \in {EnvBits("/", EmptyEnvironment)}}
    \cup {[fails |-> "none", result |-> r, top |-> t] :
        r \in {Ok(0), Ok(1), Err(OtherError)}, t \in TopEnvironments}

compile_and_run_always_assigns(prog, env_bits, o) ==
    [status |-> o.result, env_bits |-> EnvBits(o.top.cwd, o.top.env)]

\* the status returned and env_bits afterwards
compile_and_run(prog, env_bits, o) ==
    IF o.fails \in {"parse", "compile_command", "finish", "Machine::new"}
    THEN [status |-> o.result, env_bits |-> env_bits]
    ELSE [status |-> o.result, env_bits |-> EnvBits(o.top.cwd, o.top.env)]

\* the other variables, while the loop runs
OnlyRepl ==
    UNCHANGED <<pc, ast, env0, program, ip, frames, envs, ios, pipeStash, nextPipe,
                lastStatus, nextChild, spawnLog, events, stderr, finalStatus, searcher,
                host, jobs>>

\* the top of the loop: the prompt, and the working directory of the process
\* follows env.cwd
Prompt ==
    /\ pc = "repl" /\ repl.at = "loop"
    /\ repl' = [repl EXCEPT
                  !.prompt = IF repl.input = <<>> THEN "$ " ELSE "..> ",
                  !.current_dir = repl.env.cwd,
                  !.at = "readline"]
    /\ OnlyRepl

\* readline returns a line
ReadLineOk ==
    /\ pc = "repl" /\ repl.at = "readline"
    /\ \E line \in Lines, o \in Outcomes :
          /\ Len(repl.input) + Len(line) + 1 <= MaxInput
          /\ LET input == repl.input \o line
                 ran == compile_and_run(input, repl.env, o)
             IN repl' = [repl EXCEPT
                   !.input = IF ran.status.ok
                             THEN <<>>
                             ELSE IF ~is_recoverable_parse_error(ran.status.error)
                             THEN <<>>
                             ELSE Append(input, "\n"),
                   !.env = ran.env_bits,
                   !.at = "loop",
                   !.last = [event |-> "line", text |-> input, outcome |-> o,
                             before |-> repl.env,
                             printed |-> ~ran.status.ok
                                         /\ ~is_recoverable_parse_error(ran.status.error)]]
    /\ OnlyRepl

NoOutcome == [fails |-> "none", result |-> Ok(0), top |-> EnvBits("/", EmptyEnvironment)]

\* readline is interrupted
ReadLineInterrupted ==
    /\ pc = "repl" /\ repl.at = "readline"
    /\ repl' = [repl EXCEPT
                  !.input = <<>>, !.at = "loop",
                  !.last = [event |-> "interrupted", text |-> repl.input,
                            outcome |-> NoOutcome, before |-> repl.env, printed |-> FALSE]]
    /\ OnlyRepl

\* readline reports the end of the input
ReadLineEof ==
    /\ pc = "repl" /\ repl.at = "readline"
    /\ repl' = [repl EXCEPT
                  !.at = "ended",
                  !.last = [event |-> "eof", text |-> repl.input,
                            outcome |-> NoOutcome, before |-> repl.env, printed |-> FALSE]]
    /\ OnlyRepl

\* readline fails
ReadLineErr ==
    /\ pc = "repl" /\ repl.at = "readline"
    /\ repl' = [repl EXCEPT
                  !.at = "ended",
                  !.last = [event |-> "error", text |-> repl.input,
                            outcome |-> NoOutcome, before |-> repl.env, printed |-> TRUE]]
    /\ OnlyRepl

InitRepl ==
    /\ pc = "repl"
    /\ repl = [at |-> "loop", input |-> <<>>, prompt |-> "", current_dir |-> "/",
               env |-> EnvBits("/", EmptyEnvironment),
               last |-> [event |-> "none", text |-> <<>>, outcome |-> NoOutcome,
                         before |-> EnvBits("/", EmptyEnvironment), printed |-> FALSE]]
    /\ ast = c_true
    /\ env0 = EmptyEnvironment
    /\ program = <<>>
    /\ ip = 0
    /\ frames = <<>>
    /\ envs = <<env0>>
    /\ ios = <<InitialIo>>
    /\ pipeStash = None
    /\ nextPipe = 0
    /\ lastStatus = 0
    /\ nextChild = 0
    /\ spawnLog = <<>>
    /\ events = <<>>
    /\ stderr = <<>>
    /\ finalStatus = -1
    /\ searcher = NoSearcher
    /\ host = NoHost /\ jobs = NoJobs

NextRepl == Prompt \/ ReadLineOk \/ ReadLineInterrupted \/ ReadLineEof \/ ReadLineErr

SpecRepl == InitRepl /\ [][NextRepl]_vars

-----------------------------------------------------------------------------
(* Jobs and the list of jobs *)

\* the largest number of jobs created and of processes added to a job
MaxJobs == 2
MaxProcesses == 2

\* what the poll of a process reports: nothing, or a status
PollResults == {"None", "Running", "Stopped", "Complete"}

\* Job::new_empty: no process, process group 0
new_empty == [processes |-> <<>>, process_group_id |-> 0]

\* Job::add under the lock of the job: the first process names the group
JobAddInner(inner, pid) ==
    [processes |-> Append(inner.processes, pid),
     process_group_id |-> IF inner.process_group_id = 0
                          THEN pid ELSE inner.process_group_id]

\* HashMap::insert: the job under a key that is present is replaced
Insert(list, id, job) ==
    [k \in DOMAIN list \cup {id} |-> IF k = id THEN job ELSE list[k]]

\* HashMap::remove of each of the ids
RemoveAll(list, ids) == [k \in DOMAIN list \ ids |-> list[k]]

\* Job::poll: the poll of the last process; unwrap panics when there is none
PollPanics(inner) == inner.processes = <<>>

OnlyJobs ==
    UNCHANGED <<pc, ast, env0, program, ip, frames, envs, ios, pipeStash, nextPipe,
                lastStatus, nextChild, spawnLog, events, stderr, finalStatus, searcher,
                host, repl>>

NoCall == [call |-> "none", locks |-> <<>>, polls |-> <<>>, before |-> <<>>]

JobNewEmpty ==
    /\ pc = "jobs" /\ jobs.at = "idle"
    /\ Len(jobs.created) < MaxJobs
    /\ jobs' = [jobs EXCEPT !.created = Append(@, new_empty),
                            !.last = [NoCall EXCEPT !.call = "Job::new_empty"]]
    /\ OnlyJobs

\* Job::add of a process that was just started: takes the lock of the job
JobAdd ==
    /\ pc = "jobs" /\ jobs.at = "idle"
    /\ \E j \in 1..Len(jobs.created) :
          /\ Len(jobs.created[j].processes) < MaxProcesses
          /\ jobs' = [jobs EXCEPT
                        !.created[j] = JobAddInner(@, jobs.next_pid),
                        !.next_pid = @ + 1,
                        !.last = [NoCall EXCEPT !.call = "Job::add",
                                    !.locks = <<"lock job", "unlock job">>]]
    /\ OnlyJobs

\* JobList::add: process_group_id() takes and releases the lock of the job,
\* then the lock of the list is taken for the insert
JobListAdd ==
    /\ pc = "jobs" /\ jobs.at = "idle"
    /\ \E j \in 1..Len(jobs.created) :
          jobs' = [jobs EXCEPT
                     !.list = Insert(@, jobs.created[j].process_group_id, j),
                     !.last = [NoCall EXCEPT !.call = "JobList::add",
                                 !.locks = <<"lock job", "unlock job",
                                             "lock list", "unlock list">>]]
    /\ OnlyJobs

\* the locks taken by the polls of n jobs
PollLocks(n) == [i \in 1..(2 * n) |-> IF i % 2 = 1 THEN "lock job" ELSE "unlock job"]

\* check_and_print_status: under the lock of the list each job is polled and
\* the jobs that report Complete are removed; a poll that panics unwinds the
\* call with the list as it was
check_and_print_status ==
    /\ pc = "jobs" /\ jobs.at = "idle"
    /\ IF \E id \in DOMAIN jobs.list : PollPanics(jobs.created[jobs.list[id]])
       THEN jobs' = [jobs EXCEPT
                       !.at = "panicked",
                       !.last = [NoCall EXCEPT !.call = "check_and_print_status",
                                   !.locks = <<"lock list", "lock job">>,
                                   !.before = jobs.list]]
       ELSE \E polls \in [DOMAIN jobs.list -> PollResults] :
               LET terminated == {id \in DOMAIN jobs.list : polls[id] = "Complete"}
               IN jobs' = [jobs EXCEPT
                      !.list = RemoveAll(@, terminated),
                      !.last = [call |-> "check_and_print_status",
                                locks |-> <<"lock list">>
                                          \o PollLocks(Cardinality(DOMAIN jobs.list))
                                          \o <<"unlock list">>,
                                polls |-> polls,
                                before |-> jobs.list]]
    /\ OnlyJobs

InitJobs ==
    /\ pc = "jobs"
    /\ jobs = [at |-> "idle", created |-> <<>>, list |-> <<>>, next_pid |-> 1,
               last |-> NoCall]
    /\ ast = c_true
    /\ env0 = EmptyEnvironment
    /\ program = <<>>
    /\ ip = 0
    /\ frames = <<>>
    /\ envs = <<env0>>
    /\ ios = <<InitialIo>>
    /\ pipeStash = None
    /\ nextPipe = 0
    /\ lastStatus = 0
    /\ nextChild = 0
    /\ spawnLog = <<>>
    /\ events = <<>>
    /\ stderr = <<>>
    /\ finalStatus = -1
    /\ searcher = NoSearcher
    /\ host = NoHost /\ repl = NoRepl

NextJobs == JobNewEmpty \/ JobAdd \/ JobListAdd \/ check_and_print_status

SpecJobs == InitJobs /\ [][NextJobs]_vars

-----------------------------------------------------------------------------
(* Properties *)

Loaded == pc \in {"run", "done", "machine_error"}

IsJump(op) == op.op \in {"Jump", "JumpIfZero"}

\* the number of PushFrame minus the number of PopFrame among the first n
\* operations of p
FrameDepth(p, n) ==
    Cardinality({i \in 1..n : p[i].op = "PushFrame"})
        - Cardinality({i \in 1..n : p[i].op = "PopFrame"})

\* PushFrame and PopFrame are properly nested in p, every jump joins two
\* addresses of the same nesting depth, and the depth is 0 at the final Exit
FramesNested(p) ==
    /\ \A n \in 0..Len(p) : FrameDepth(p, n) >= 0
    /\ \A n \in 1..Len(p) :
          IsJump(p[n]) /\ p[n].target <= Len(p) =>
              FrameDepth(p, n) = FrameDepth(p, p[n].target)
    /\ p # <<>> /\ p[Len(p)].op = "Exit" /\ FrameDepth(p, Len(p)) = 0

\* C1: in every program that compile_command and finish produce, PushFrame and
\* PopFrame are properly nested, also across every jump; the machine never
\* executes PopFrame on an empty frame stack, and the frame stack is empty
\* when it executes Exit.
C1_FramesBalanced ==
    /\ pc = "run" /\ ip = 0 => FramesNested(program)
    /\ At("PopFrame") => frames # <<>>
    /\ At("Exit") => frames = <<>>
    /\ Running => Len(frames) = FrameDepth(program, ip)

\* the machine is about to execute the Exit of a program with a conditional
\* jump inside nested frames, after a spawn
C1_Witness ==
    /\ At("Exit") /\ frames = <<>> /\ nextChild >= 1
    /\ \E n \in 1..Len(program) :
          program[n].op = "JumpIfZero" /\ FrameDepth(program, n) >= 2

\* the frame-relative slots of the operation the machine is about to execute
SlotsOfOp == {o.n : o \in {x \in Operands(Op) : x.k = "FrameRelative"}}

\* C2 (as stated): every FrameRelative(n) the machine dereferences satisfies
\* 1 <= n < size, size being the size of the current frame.
C2_SlotBelowSize ==
    Running => \A n \in SlotsOfOp : frames # <<>> /\ 1 <= n /\ n < Len(TopFrame)

\* C2 (amended): every FrameRelative(n) the machine dereferences satisfies
\* 1 <= n <= size, size being the size patched into the PushFrame of the
\* current frame; the highest slot of a frame is n = size.
C2_SlotWithinFrame ==
    Running => \A n \in SlotsOfOp : frames # <<>> /\ 1 <= n /\ n <= Len(TopFrame)

\* the machine dereferences slot n = size of a frame of size >= 2
C2_Witness ==
    /\ Running /\ frames # <<>> /\ Len(TopFrame) >= 2
    /\ Len(TopFrame) \in SlotsOfOp

\* C3: in every finished program the target of every Jump and JumpIfZero is
\* the address of an operation of the program.
C3_JumpTargetsInProgram ==
    Loaded => \A n \in 1..Len(program) :
                 IsJump(program[n]) =>
                     program[n].target >= 0 /\ program[n].target < Len(program)

\* a loaded program with a Jump to the last operation before the final Exit
\* and a JumpIfZero to the operation after that Jump
C3_Witness ==
    /\ pc = "run"
    /\ \E n \in 2..Len(program) :
          /\ program[n].op = "Jump" /\ program[n].target = Len(program) - 2
          /\ \E m \in 1..(n - 1) : program[m].op = "JumpIfZero" /\ program[m].target = n

-----------------------------------------------------------------------------
(* Reference semantics of the shell language, for the functional claims *)

Ended == pc \in {"done", "machine_error", "compile_error"}

RECURSIVE WordText(_, _)
\* the text of a word made of literal components, from the i-th component on
WordText(word, i) ==
    IF i > Len(word) THEN s_empty ELSE word[i].literal \o WordText(word, i + 1)

\* the texts of a sequence of literal words
WordTexts(words) == [i \in 1..Len(words) |-> WordText(words[i], 1)]

\* the command name of a simple command whose first word is a literal
NameOf(command) == WordText(command.command.words[1], 1)

\* the events of n synchronous commands run one after the other
SpawnWaitEvents(n) ==
    [i \in 1..(2 * n) |-> [e |-> IF i % 2 = 1 THEN "spawn" ELSE "wait",
                             id |-> (i + 1) \div 2]]

\* synchronous simple commands that spawn
SpawningCommands == {c_true, c_false, c_echo_foo, c_scoped}

\* `A && B` and `A || B`
AndOrCommands ==
    {AndIf(a, b) : a \in {c_true, c_false}, b \in SpawningCommands}
    \cup {OrIf(a, b) : a \in {c_true, c_false}, b \in SpawningCommands}

\* C4: `A && B` spawns B exactly when A completed with exit code 0, `A || B`
\* spawns B exactly when A completed with a non-zero exit code, A is always
\* spawned (and waited on) first, and the final status is the exit code of the
\* last command that was spawned.
C4_AndOr ==
    Ended /\ ast \in AndOrCommands =>
        LET isAnd == ast.command.true_part.some
            a == ast.command.condition.commands[1]
            b == IF isAnd THEN ast.command.true_part.value.commands[1]
                 ELSE ast.command.false_part.value.commands[1]
            runsB == (isAnd <=> HostExitCode(<<NameOf(a)>>) = 0)
        IN /\ pc = "done"
           /\ Len(spawnLog) = IF runsB THEN 2 ELSE 1
           /\ spawnLog[1].argv = <<NameOf(a)>>
           /\ runsB => spawnLog[2].argv[1] = NameOf(b)
           /\ events = SpawnWaitEvents(Len(spawnLog))
           /\ finalStatus = HostExitCode(spawnLog[Len(spawnLog)].argv)

\* `true && false` has spawned both and returned 1
C4_Witness ==
    /\ pc = "done" /\ ast = AndIf(c_true, c_false)
    /\ Len(spawnLog) = 2 /\ spawnLog[2].argv = <<s_false>> /\ finalStatus = 1

-----------------------------------------------------------------------------
(* Lists of simple commands *)

Children == ast.command.list.commands

\* a Program or BraceGroup of the small simple commands, without redirection
IsSmallList ==
    /\ ast.command.type \in {"Program", "BraceGroup"}
    /\ ast.redirects = <<>>
    /\ \A i \in 1..Len(Children) : Children[i] \in SmallCommands

HasWords(command) == command.command.words # <<>>

\* a simple command with both assignments and words
Scoped(command) == command.command.words # <<>> /\ command.command.assignments # <<>>

RECURSIVE ListEvents(_, _, _)
\* the spawns and waits of the children of a list from the i-th on, k children
\* having been spawned: a child without words makes a spawn request that
\* fails, a synchronous child is waited on at once
ListEvents(children, i, k) ==
    IF i > Len(children) THEN <<>>
    ELSE LET id == IF HasWords(children[i]) THEN k + 1 ELSE 0
         IN <<[e |-> IF id = 0 THEN "spawn_failed" ELSE "spawn", id |-> id]>>
            \o (IF children[i].asynchronous THEN <<>> ELSE <<[e |-> "wait", id |-> id]>>)
            \o ListEvents(children, i + 1, IF id = 0 THEN k ELSE k + 1)

Max(S) == CHOOSE x \in S : \A y \in S : y <= x

\* the exit code of the last command waited on, 0 if none was
LastWaitCode ==
    LET waits == {i \in 1..Len(events) : events[i].e = "wait"}
    IN IF waits = {} THEN 0
       ELSE IF events[Max(waits)].id = 0 THEN SpawnErrorStatus
       ELSE HostExitCode(spawnLog[events[Max(waits)].id].argv)

\* finish appends the only Exit of the program, Exit{LastWaitStatus}
SingleFinalExit(p) ==
    /\ p # <<>>
    /\ p[Len(p)] = [op |-> "Exit", value |-> LastWaitStatus]
    /\ \A n \in 1..(Len(p) - 1) : p[n].op # "Exit"

-----------------------------------------------------------------------------
(* Reference semantics of assignments and parameter expansion *)

RECURSIVE AssignedEnv(_, _, _)
\* env after the assignments from the i-th on; the values are literal words
AssignedEnv(env, assignments, i) ==
    IF i > Len(assignments) THEN env
    ELSE AssignedEnv(EnvSet(env, assignments[i].name, WordText(assignments[i].value, 1)),
                     assignments, i + 1)

\* the fields a text contributes to a list
FieldsOf(text, split) == IF split THEN SplitFields(text) ELSE <<text>>

LiteralOnly(word) == \A i \in 1..Len(word) : word[i].kind = "Literal"

Unquoted(word) == \A i \in 1..Len(word) : word[i].splittable

\* the value of a parameter, the empty text if it is unset
ValueOf(env, name) == IF EnvIsSet(env, name) THEN env[name] ELSE s_empty

\* whether `${v:-w}`, `${v:=w}` (allow_null false) or `${v-w}`, `${v=w}`
\* (allow_null true) take w
UsesDefault(expr, env) ==
    \/ ~EnvIsSet(env, expr.name)
    \/ ~expr.allow_null /\ env[expr.name] = s_empty

RECURSIVE FieldsOfWords(_, _, _), ExpansionText(_, _)

\* the fields of the words from the i-th on; a word is made of literals or is
\* one parameter expansion
FieldsOfWords(words, i, env) ==
    IF i > Len(words) THEN <<>>
    ELSE FieldsOf(IF LiteralOnly(words[i]) THEN WordText(words[i], 1)
                  ELSE ExpansionText(words[i][1].expr, env),
                  Unquoted(words[i]))
         \o FieldsOfWords(words, i + 1, env)

\* what `$v`, `${v:-w}`, `${v-w}`, `${v:=w}`, `${v=w}` expand to
ExpansionText(expr, env) ==
    IF expr.kind \in {"GetDefault", "AssignDefault"} /\ UsesDefault(expr, env)
    THEN Join(FieldsOfWords(expr.word, 1, env))
    ELSE ValueOf(env, expr.name)

\* the environment after the expansion
EnvAfter(expr, env) ==
    IF expr.kind = "AssignDefault" /\ UsesDefault(expr, env)
    THEN EnvSet(env, expr.name, ExpansionText(expr, env))
    ELSE env

\* `[v=...] echo <one parameter expansion>`, without redirection
IsParamCommand ==
    /\ ast.command.type = "SimpleCommand"
    /\ ast.redirects = <<>> /\ ast.command.redirects = <<>>
    /\ Len(ast.command.words) = 2
    /\ Len(ast.command.words[2]) = 1
    /\ ast.command.words[2][1].kind = "ParamExpand"
    /\ ast.command.words[2][1].expr \in ParamExprs

TheParam == ast.command.words[2][1]

\* the environment in which the words of the command are expanded
EnvOfWords == AssignedEnv(env0, ast.command.assignments, 1)

\* the argv of `echo <one parameter expansion>`
ParamArgv == <<s_echo>> \o FieldsOf(ExpansionText(TheParam.expr, EnvOfWords), TheParam.splittable)

RECURSIVE ListSpawns(_, _, _), ListEnv(_, _, _)
\* the argv and environment of the spawns of the children of a list from the
\* i-th on, env being the environment before the i-th
ListSpawns(children, i, env) ==
    IF i > Len(children) THEN <<>>
    ELSE IF ~HasWords(children[i])
    THEN ListSpawns(children, i + 1, AssignedEnv(env, children[i].command.assignments, 1))
    ELSE <<[argv |-> FieldsOfWords(children[i].command.words, 1,
                                   AssignedEnv(env, children[i].command.assignments, 1)),
            environment |-> AssignedEnv(env, children[i].command.assignments, 1)]>>
         \o ListSpawns(children, i + 1, env)

\* the environment after the children of a list from the i-th on
ListEnv(children, i, env) ==
    IF i > Len(children) THEN env
    ELSE ListEnv(children, i + 1,
                 IF HasWords(children[i]) THEN env
                 ELSE AssignedEnv(env, children[i].command.assignments, 1))

SpawnedWith == [i \in 1..Len(spawnLog) |->
                   [argv |-> spawnLog[i].argv, environment |-> spawnLog[i].environment]]

CountOf(name) == Cardinality({n \in 1..Len(program) : program[n].op = name})

\* a simple command with assignments, words and redirections
IsRedirectedScoped ==
    /\ ast.command.type = "SimpleCommand"
    /\ ast.command.assignments # <<>>
    /\ ast.command.words # <<>>
    /\ ast.redirects # <<>> \/ ast.command.redirects # <<>>

\* the surrounding environment after the file names of the redirections of
\* the command are expanded
EnvOfRedirections ==
    IF ast.command.redirects # <<>> /\ ast.command.redirects[1] = r_default
    THEN EnvAfter(r_default.file_name[1].expr, env0)
    ELSE env0

\* C7 (as stated): for a simple command with both assignments and words, the
\* environment handed to the host contains the assigned values, and when the
\* command is over the environment stack is what it was before the command.
C7_AssignedValuesReachHost ==
    ast.command.type = "SimpleCommand" /\ Scoped(ast) =>
        /\ \A k \in 1..Len(spawnLog) : \A i \in 1..Len(ast.command.assignments) :
              /\ EnvIsSet(spawnLog[k].environment, ast.command.assignments[i].name)
              /\ spawnLog[k].environment[ast.command.assignments[i].name]
                    = WordText(ast.command.assignments[i].value, 1)
        /\ At("Exit") => envs = <<env0>>

\* C7 (amended): for a simple command with both assignments and words, the
\* assignments are evaluated in a pushed environment before the words are
\* expanded (`foo=1 echo $foo` passes "1"), the environment handed to the host
\* is the surrounding one with the assigned values, except for a variable that
\* an AssignDefault expansion among the words sets afterwards, and when the
\* command is over the environment stack is what it was before the
\* assignments: they do not leak, neither to the end of the program nor to
\* the later commands of a list. The file names of the command's redirections
\* are expanded before the environment is pushed, in the surrounding one.
C7_ScopedAssignments ==
    /\ IsParamCommand /\ Scoped(ast) =>
          /\ \A k \in 1..Len(spawnLog) :
                spawnLog[k].environment = EnvAfter(TheParam.expr, EnvOfWords)
          /\ Ended /\ TheParam.expr.kind = "Get" =>
                pc = "done" /\ Len(spawnLog) = 1 /\ spawnLog[1].argv = ParamArgv
          /\ Loaded => envs # <<>> /\ envs[1] = env0
          /\ At("Exit") => envs = <<env0>>
    /\ IsRedirectedScoped =>
          /\ \A k \in 1..Len(spawnLog) :
                spawnLog[k].environment
                    = AssignedEnv(EnvOfRedirections, ast.command.assignments, 1)
          /\ At("Exit") => envs = <<EnvOfRedirections>> /\ Len(spawnLog) = 1
    /\ IsSmallList /\ (\A i \in 1..Len(Children) : HasWords(Children[i])) =>
          /\ Loaded => CountOf("PushEnvironment")
                          = Cardinality({i \in 1..Len(Children) : Scoped(Children[i])})
          /\ Loaded => envs # <<>> /\ envs[1] = env0
          /\ Ended => SpawnedWith = ListSpawns(Children, 1, env0)
          /\ At("Exit") => envs = <<env0>>

\* `foo=1 echo $foo` in the empty environment has passed "1" in a scoped
\* environment and has popped it
C7_Witness ==
    /\ At("Exit") /\ env0 = EmptyEnvironment
    /\ ast = Simple(<<Assignment(s_foo, <<Lit(s_1)>>)>>,
                    <<w_echo, <<Param(ParamExpr(s_foo, "Get", FALSE, <<>>), TRUE)>> >>)
    /\ Len(spawnLog) = 1 /\ spawnLog[1].argv = <<s_echo, s_1>>
    /\ spawnLog[1].environment = EnvSet(EmptyEnvironment, s_foo, s_1)
    /\ envs = <<EmptyEnvironment>>

\* C8: for a simple command with assignments and no words no PushEnvironment
\* and no PopEnvironment is emitted, the assignments are applied to the
\* surrounding environment, and every later command of the program sees the
\* assigned values.
C8_AssignmentOnly ==
    IsSmallList =>
        /\ Loaded => /\ CountOf("PushEnvironment")
                          = Cardinality({i \in 1..Len(Children) : Scoped(Children[i])})
                     /\ CountOf("PopEnvironment") = CountOf("PushEnvironment")
        /\ Ended => /\ pc = "done"
                    /\ SpawnedWith = ListSpawns(Children, 1, env0)
                    /\ envs = <<ListEnv(Children, 1, env0)>>

\* `foo=1; echo "$foo"` in the empty environment: echo has seen foo=1, which
\* is still set at the end
C8_Witness ==
    /\ pc = "done" /\ env0 = EmptyEnvironment
    /\ ast = Plain(ListType("Program", <<c_set_foo, c_echo_foo>>))
    /\ CountOf("PushEnvironment") = 0
    /\ Len(spawnLog) = 1 /\ spawnLog[1].argv = <<s_echo, s_1>>
    /\ spawnLog[1].environment = EnvSet(EmptyEnvironment, s_foo, s_1)
    /\ envs = <<EnvSet(EmptyEnvironment, s_foo, s_1)>>

\* C9: `${v:-w}` expands to the joined expansion of w when v is unset or
\* empty and to the value of v otherwise, `${v-w}` expands to w only when v is
\* unset; the environment is left unchanged.
C9_GetDefault ==
    IsParamCommand /\ TheParam.expr.kind = "GetDefault" =>
        /\ Loaded => /\ envs # <<>> /\ envs[1] = env0
                     /\ envs[Len(envs)] \in {env0, EnvOfWords}
                     /\ CountOf("SetEnv") = Len(ast.command.assignments)
        /\ Ended => /\ pc = "done"
                    /\ Len(spawnLog) = 1
                    /\ spawnLog[1].argv = ParamArgv
                    /\ spawnLog[1].environment = EnvOfWords
                    /\ envs = <<env0>>

\* `echo ${foo:-bar baz}` with foo set to the empty string has passed bar and
\* baz and left foo empty
C9_Witness ==
    /\ pc = "done" /\ env0 = EnvSet(EmptyEnvironment, s_foo, s_empty)
    /\ ast = Simple(<<>>, <<w_echo, <<Param(ParamExpr(s_foo, "GetDefault", FALSE,
                                                      <<w_bar, w_baz>>), TRUE)>> >>)
    /\ Len(spawnLog) = 1 /\ spawnLog[1].argv = <<s_echo, s_bar, s_baz>>
    /\ spawnLog[1].environment = env0 /\ envs = <<env0>>

\* C10: `${v:=w}` and `${v=w}` expand like `${v:-w}` and `${v-w}` and, exactly
\* when w is taken, set v to the joined expansion of w in the topmost
\* environment before the command is spawned: the scoped environment of a
\* command with assignments, discarded afterwards, and the surrounding
\* environment otherwise, where the value persists; when v has a value the
\* environment is unchanged.
C10_AssignDefault ==
    IsParamCommand /\ TheParam.expr.kind = "AssignDefault" =>
        /\ Loaded => envs # <<>> /\ envs[1] \in {env0, EnvAfter(TheParam.expr, env0)}
        /\ Loaded /\ ast.command.assignments # <<>> => envs[1] = env0
        /\ Ended => /\ pc = "done"
                    /\ Len(spawnLog) = 1
                    /\ spawnLog[1].argv = ParamArgv
                    /\ spawnLog[1].environment = EnvAfter(TheParam.expr, EnvOfWords)
                    /\ envs = <<IF ast.command.assignments = <<>>
                                THEN EnvAfter(TheParam.expr, env0) ELSE env0>>

\* `echo ${foo:=bar baz}` in the empty environment has passed bar and baz with
\* foo set to "bar baz", which persists
C10_Witness ==
    /\ pc = "done" /\ env0 = EmptyEnvironment
    /\ ast = Simple(<<>>, <<w_echo, <<Param(ParamExpr(s_foo, "AssignDefault", FALSE,
                                                      <<w_bar, w_baz>>), TRUE)>> >>)
    /\ Len(spawnLog) = 1 /\ spawnLog[1].argv = <<s_echo, s_bar, s_baz>>
    /\ spawnLog[1].environment = EnvSet(EmptyEnvironment, s_foo, s_bar \o <<" ">> \o s_baz)
    /\ envs = <<spawnLog[1].environment>>

-----------------------------------------------------------------------------
(* The other operators of parameter expansion *)

\* what `${v:+w}` (allow_null false) and `${v+w}` (allow_null true) expand to
AlternativeText(expr, env) ==
    IF UsesDefault(expr, env) THEN s_empty ELSE Join(FieldsOfWords(expr.word, 1, env))

\* C11: `${v:+w}` expands to the empty string when v is unset or empty and to
\* the joined expansion of w otherwise; `${v+w}` expands to the empty string
\* only when v is unset and to w when v is set, also to the empty string.
C11_AlternativeValue ==
    IsParamCommand /\ TheParam.expr.kind = "AlternativeValue" /\ Ended =>
        /\ pc = "done"
        /\ Len(spawnLog) = 1
        /\ spawnLog[1].argv
              = <<s_echo>> \o FieldsOf(AlternativeText(TheParam.expr, EnvOfWords),
                                       TheParam.splittable)
        /\ spawnLog[1].environment = EnvOfWords
        /\ envs = <<env0>>

\* `foo= echo ${foo+bar}` has passed bar
C11_Witness ==
    /\ pc = "done" /\ env0 = EmptyEnvironment
    /\ ast = Simple(<<Assignment(s_foo, <<>>)>>,
                    <<w_echo, <<Param(ParamExpr(s_foo, "AlternativeValue", TRUE,
                                                <<w_bar>>), TRUE)>> >>)
    /\ Len(spawnLog) = 1 /\ spawnLog[1].argv = <<s_echo, s_bar>>
    /\ spawnLog[1].environment = EnvSet(EmptyEnvironment, s_foo, s_empty)

\* the message of `${v:?w}` and `${v?w}`
CheckSetMessage(expr, env) ==
    IF expr.word = <<>> THEN s_parameter_ \o expr.name \o s__is_not_set
    ELSE Join(FieldsOfWords(expr.word, 1, env))

\* C12: when a word of a simple command contains `${v:?w}` and v is unset or
\* empty (`${v?w}`: unset), stderr receives exactly the joined expansion of w,
\* or `parameter <v> is not set` when there is no w, with no trailing newline;
\* the host is never asked to spawn the command, and the final status is 1.
C12_CheckSet ==
    IsParamCommand /\ TheParam.expr.kind = "CheckSet" =>
        IF UsesDefault(TheParam.expr, EnvOfWords)
        THEN /\ spawnLog = <<>> /\ nextChild = 0
             /\ stderr \in {<<>>, CheckSetMessage(TheParam.expr, EnvOfWords)}
             /\ Ended => /\ pc = "done"
                         /\ stderr = CheckSetMessage(TheParam.expr, EnvOfWords)
                         /\ finalStatus = 1
        ELSE /\ stderr = <<>>
             /\ Ended => /\ pc = "done"
                         /\ Len(spawnLog) = 1
                         /\ spawnLog[1].argv
                               = <<s_echo>> \o FieldsOf(ValueOf(EnvOfWords, s_foo),
                                                        TheParam.splittable)
                         /\ finalStatus = 0

\* `echo ${foo:?bar baz}` with foo set to the empty string has written
\* "bar baz" and returned 1 without a spawn
C12_Witness ==
    /\ pc = "done" /\ env0 = EnvSet(EmptyEnvironment, s_foo, s_empty)
    /\ ast = Simple(<<>>, <<w_echo, <<Param(ParamExpr(s_foo, "CheckSet", FALSE,
                                                      <<w_bar, w_baz>>), TRUE)>> >>)
    /\ stderr = s_bar \o <<" ">> \o s_baz
    /\ spawnLog = <<>> /\ finalStatus = 1

-----------------------------------------------------------------------------
(* Error and ListAppend *)

\* C13 as stated: after Error the machine goes on to the following instruction
C13_ErrorContinues ==
    [][At("Error") => /\ stderr' = stderr \o StringOf(Read(Op.message))
                      /\ lastStatus' = 1
                      /\ pc' = "run" /\ ip' = ip + 1]_vars

\* C13: executing Error{message} writes message to stderr and sets the last
\* wait status to 1; it ends the run with final status 1, so that none of the
\* following instructions executes and nothing is spawned afterwards.
C13_ErrorEndsRun ==
    [][At("Error") => /\ stderr' = stderr \o StringOf(Read(Op.message))
                      /\ lastStatus' = 1
                      /\ pc' = "done" /\ finalStatus' = 1
                      /\ ip' = ip /\ spawnLog' = spawnLog /\ frames' = frames]_vars

\* a run that Error has ended in front of a SpawnCommand it never reached
C13_Witness ==
    /\ pc = "done" /\ finalStatus = 1 /\ lastStatus = 1
    /\ ip < Len(program) /\ program[ip + 1].op = "Error"
    /\ stderr = s_bar
    /\ events = <<[e |-> "error", id |-> 0]>>
    /\ \E j \in (ip + 2)..Len(program) : program[j].op = "SpawnCommand"
    /\ spawnLog = <<>>

\* the value of a FrameRelative operand after the step
ReadAfter(o) == frames'[Len(frames')][o.n]

\* C15 as stated: ListAppend appends the value as exactly one element whatever
\* split and glob are
C15_OneElementWhateverSplit ==
    [][At("ListAppend") =>
          /\ ReadAfter(Op.list).t = "List"
          /\ ReadAfter(Op.list).l = Append(Read(Op.list).l, VStr(StringOf(Read(Op.value))))]_vars

\* C15: ListAppend with split = false appends the value as exactly one
\* element; with split = true it appends one element per whitespace-separated
\* field of the value, none when the value is empty or None.
C15_ListAppendSplits ==
    [][At("ListAppend") =>
          /\ ReadAfter(Op.list).t = "List"
          /\ Texts(ReadAfter(Op.list).l)
                = Texts(Read(Op.list).l)
                     \o (IF Op.split THEN SplitFields(StringOf(Read(Op.value)))
                         ELSE <<StringOf(Read(Op.value))>>)
          /\ ~Op.split => Len(ReadAfter(Op.list).l) = Len(Read(Op.list).l) + 1]_vars

\* `echo ${foo:-bar baz}` has passed bar and baz as two elements: argv, in
\* slot 1, has three elements after two ListAppend, one per word
C15_Witness ==
    /\ pc = "done" /\ env0 = EmptyEnvironment
    /\ ast = Simple(<<>>, <<w_echo, <<Param(ParamExpr(s_foo, "GetDefault", FALSE,
                                                      <<w_bar, w_baz>>), TRUE)>> >>)
    /\ Cardinality({j \in 1..Len(program) :
                        /\ program[j].op = "ListAppend" /\ program[j].split
                        /\ program[j].list = FrameRelative(1)}) = 2
    /\ Len(spawnLog) = 1 /\ spawnLog[1].argv = <<s_echo, s_bar, s_baz>>

-----------------------------------------------------------------------------
(* Field splitting *)

\* what a parameter expansion that does not fail expands to
ParamText(expr, env) ==
    CASE expr.kind = "StringLength" -> Decimal(Len(ValueOf(env, expr.name)))
      [] expr.kind = "AlternativeValue" -> AlternativeText(expr, env)
      [] OTHER -> ExpansionText(expr, env)

RECURSIVE ComponentsText(_, _, _), ArgvOf(_, _, _)

\* the text of the components of a word from the i-th on
ComponentsText(word, i, env) ==
    IF i > Len(word) THEN s_empty
    ELSE (IF word[i].kind = "Literal" THEN word[i].literal
          ELSE ParamText(word[i].expr, env))
         \o ComponentsText(word, i + 1, env)

\* the argv elements of the words from the i-th on: the fields of a word all
\* of whose components are splittable, the text of any other word
ArgvOf(words, i, env) ==
    IF i > Len(words) THEN <<>>
    ELSE (IF \A j \in 1..Len(words[i]) : words[i][j].splittable
          THEN SplitFields(ComponentsText(words[i], 1, env))
          ELSE <<ComponentsText(words[i], 1, env)>>)
         \o ArgvOf(words, i + 1, env)

\* simple commands whose words are literals and parameter expansions that do
\* not fail
SplitCommand ==
    /\ ast \in ParamCommands \cup MixedCommands \cup LiteralCommands
    /\ IsParamCommand /\ TheParam.expr.kind = "CheckSet"
          => ~UsesDefault(TheParam.expr, EnvOfWords)

\* C14: a word all of whose components are splittable adds one argv element
\* per whitespace-separated field of its expansion, none when the expansion is
\* empty; a word with a non-splittable component adds exactly one element,
\* also when its expansion is empty or contains spaces.
C14_FieldSplitting ==
    Ended /\ SplitCommand =>
        /\ pc = "done"
        /\ Len(spawnLog) = 1
        /\ spawnLog[1].argv = ArgvOf(ast.command.words, 1, EnvOfWords)

\* `foo="a b" echo $foo` has passed a and b
C14_Witness ==
    /\ pc = "done"
    /\ ast = Simple(<<Assignment(s_foo, <<Quoted(s_a_b)>>)>>,
                    <<w_echo, <<Param(ParamExpr(s_foo, "Get", FALSE, <<>>), TRUE)>> >>)
    /\ Len(spawnLog) = 1 /\ spawnLog[1].argv = <<s_echo, <<"a">>, <<"b">> >>

-----------------------------------------------------------------------------
(* Conditionals *)

\* C16 as stated: JumpIfZero branches exactly when its condition resolves to
\* Integer(0), None or the empty string, LastWaitStatus resolving to the last
\* status as an Integer
C16_BranchOnIntegerZero ==
    [][At("JumpIfZero") =>
          ip' = IF \/ Read(Op.condition).t = "None"
                   \/ Read(Op.condition).t = "Integer" /\ Read(Op.condition).i = 0
                   \/ Read(Op.condition).t = "String" /\ Read(Op.condition).s = s_empty
                THEN Op.target ELSE ip + 1]_vars

\* the condition of `if A; then T; else E; fi` and the status A leaves
IfCondition == ast.command.condition.commands[1]
ConditionStatus ==
    IF HasWords(IfCondition) THEN HostExitCode(<<NameOf(IfCondition)>>)
    ELSE SpawnErrorStatus

\* the commands of the part that is to run, none if the command has no such part
TakenPart ==
    LET part == IF ConditionStatus = 0 THEN ast.command.true_part
                ELSE ast.command.false_part
    IN IF part.some THEN part.value.commands ELSE <<>>

\* what the run of an If is to do
IfEvents ==
    ListEvents(<<IfCondition>>, 1, 0)
    \o ListEvents(TakenPart, 1, IF HasWords(IfCondition) THEN 1 ELSE 0)

IsPrefix(s, t) == Len(s) <= Len(t) /\ s = SubSeq(t, 1, Len(s))

\* C16: JumpIfZero on a value branches exactly when the value is Integer(0),
\* None or the empty string; JumpIfZero on LastWaitStatus branches exactly
\* when the last status is not 0. Consequently in every if-then-else lowering
\* exactly one of THEN and ELSE executes, and for an If command it is THEN
\* exactly when the condition left the status 0.
C16_JumpIfZero ==
    /\ [][At("JumpIfZero") =>
             ip' = IF Op.condition.k = "LastWaitStatus"
                   THEN (IF lastStatus # 0 THEN Op.target ELSE ip + 1)
                   ELSE (IF \/ Read(Op.condition).t = "None"
                            \/ Read(Op.condition).t = "Integer" /\ Read(Op.condition).i = 0
                            \/ Read(Op.condition).t = "String"
                                  /\ Read(Op.condition).s = s_empty
                         THEN Op.target ELSE ip + 1)]_vars
    /\ [](ast.command.type = "If" /\ ast \in IfCommands =>
             /\ IsPrefix(events, IfEvents)
             /\ Ended => /\ pc = "done"
                         /\ events = IfEvents
                         /\ [i \in 1..Len(spawnLog) |-> spawnLog[i].argv[1]]
                               = [i \in 1..Len(SelectSeq(<<IfCondition>> \o TakenPart,
                                                         HasWords)) |->
                                     NameOf(SelectSeq(<<IfCondition>> \o TakenPart,
                                                      HasWords)[i])])

\* `if true; then false; else true; fi` has run true and false, and returned 1
C16_Witness ==
    /\ pc = "done"
    /\ ast = Plain(IfType(<<c_true>>, Some(<<c_false>>), Some(<<c_true>>)))
    /\ Len(spawnLog) = 2 /\ spawnLog[1].argv = <<s_true>> /\ spawnLog[2].argv = <<s_false>>
    /\ finalStatus = 1

-----------------------------------------------------------------------------
(* String length *)

\* C17: `${#v}` expands to the decimal text of the number of characters of
\* the value of v, "0" when v is unset.
C17_StringLength ==
    IsParamCommand /\ TheParam.expr.kind = "StringLength" /\ Ended =>
        /\ pc = "done"
        /\ Len(spawnLog) = 1
        /\ spawnLog[1].argv
              = <<s_echo, IF EnvIsSet(EnvOfWords, s_foo)
                          THEN Decimal(Len(EnvOfWords[s_foo])) ELSE <<"0">> >>
        /\ spawnLog[1].environment = EnvOfWords
        /\ finalStatus = 0

\* `foo="a b" echo ${#foo}` has passed 3
C17_Witness ==
    /\ pc = "done"
    /\ ast = Simple(<<Assignment(s_foo, <<Quoted(s_a_b)>>)>>,
                    <<w_echo, <<Param(ParamExpr(s_foo, "StringLength", FALSE, <<>>),
                                      TRUE)>> >>)
    /\ Len(spawnLog) = 1 /\ spawnLog[1].argv = <<s_echo, <<"3">> >>

-----------------------------------------------------------------------------
(* JoinList, StringLength and InvertLastWait, on MachineProgram *)

\* StringLength has executed
LengthTaken == pc \in {"run", "done"} /\ ip >= 4

\* C18 as stated: for every list of N single-character strings, JoinList
\* followed by StringLength yields 2 * N - 1
C18_JoinLengthAnyN ==
    LengthTaken => frames[1][3] = VInt(2 * Len(ast.list) - 1)

\* C18: for every list of N >= 1 single-character strings, JoinList followed
\* by StringLength on the result yields 2 * N - 1, the N characters plus N - 1
\* single-space separators; for the empty list it yields 0.
C18_JoinLength ==
    LengthTaken =>
        /\ frames[1][2].t = "String"
        /\ frames[1][3] = VInt(IF Len(ast.list) = 0 THEN 0 ELSE 2 * Len(ast.list) - 1)

\* the list <<"a", " ", "a">> has been joined and its length, 5, taken
C18_Witness ==
    /\ LengthTaken /\ ast.list = <<"a", " ", "a">>
    /\ frames[1][2] = VStr(<<"a", " ", " ", " ", "a">>)
    /\ frames[1][3] = VInt(5)

\* the status the command left
OriginalStatus == HostExitCode(<<ast.name>>)

\* C19: InvertLastWait sets the last wait status to 0 if it was non-zero and
\* to 1 if it was 0; applied twice it restores the original last wait status,
\* every non-zero original collapsed to 1.
C19_InvertTwice ==
    /\ [][At("InvertLastWait") =>
             /\ lastStatus' = IF lastStatus # 0 THEN 0 ELSE 1
             /\ pc' = "run" /\ ip' = ip + 1 /\ frames' = frames]_vars
    /\ [](/\ ip = 7 => lastStatus = OriginalStatus
          /\ ip = 8 => lastStatus = IF OriginalStatus # 0 THEN 0 ELSE 1
          /\ ip = 9 => lastStatus = IF OriginalStatus # 0 THEN 1 ELSE 0
          /\ pc = "done" => finalStatus = IF OriginalStatus # 0 THEN 1 ELSE 0)

\* a command that exited with 2 has left the status 1 after two InvertLastWait
C19_Witness ==
    /\ pc = "done" /\ ast.name = s_hello /\ OriginalStatus = 2
    /\ events = <<[e |-> "spawn", id |-> 1], [e |-> "wait", id |-> 1],
                  [e |-> "invert", id |-> 0], [e |-> "invert", id |-> 0]>>
    /\ lastStatus = 1 /\ finalStatus = 1

-----------------------------------------------------------------------------
(* Pipelines *)

Stages == ast.command.commands

\* a pipeline of two or more synchronous simple commands that spawn
IsPipeline ==
    /\ ast.command.type = "Pipeline" /\ ast.redirects = <<>>
    /\ Len(Stages) >= 2
    /\ \A i \in 1..Len(Stages) : Stages[i] \in SpawningCommands

\* C20: in a pipeline of n >= 2 commands the stdout of stage i is the write
\* end of a pipe whose read end is the stdin of stage i + 1, the stdin of the
\* first stage and the stdout of the last stage are those of the surrounding
\* I/O environment, the stages are spawned in source order, and the final
\* status is the exit code of the last stage (inverted by `!`).
C20_Pipeline ==
    Ended /\ IsPipeline =>
        /\ pc = "done"
        /\ Len(spawnLog) = Len(Stages)
        /\ \A i \in 1..Len(Stages) : spawnLog[i].argv[1] = NameOf(Stages[i])
        /\ spawnLog[1].stdin = InitialIo[0]
        /\ spawnLog[Len(Stages)].stdout = InitialIo[1]
        /\ \A i \in 1..(Len(Stages) - 1) :
              /\ spawnLog[i].stdout = PipeWrite(i)
              /\ spawnLog[i + 1].stdin = PipeRead(i)
        /\ events = SpawnWaitEvents(Len(Stages))
                       \o (IF ast.command.inverted THEN <<[e |-> "invert", id |-> 0]>>
                           ELSE <<>>)
        /\ finalStatus = IF ast.command.inverted
                         THEN (IF HostExitCode(spawnLog[Len(Stages)].argv) # 0 THEN 0 ELSE 1)
                         ELSE HostExitCode(spawnLog[Len(Stages)].argv)
        /\ ios = <<InitialIo>> /\ pipeStash = None

\* `false | true | false` has run its stages on two pipes and returned 1
C20_Witness ==
    /\ pc = "done"
    /\ ast = Plain(PipelineType(<<c_false, c_true, c_false>>, FALSE))
    /\ Len(spawnLog) = 3
    /\ spawnLog[1].stdout = PipeWrite(1) /\ spawnLog[2].stdin = PipeRead(1)
    /\ spawnLog[2].stdout = PipeWrite(2) /\ spawnLog[3].stdin = PipeRead(2)
    /\ finalStatus = 1

-----------------------------------------------------------------------------
(* The lowering of pipelines *)

\* the program has been compiled and nothing of it has run
Compiled == pc = "run" /\ ip = 0

\* the operations of the program that belong to one of the kinds
OpsOf(kinds) == SelectSeq([n \in 1..Len(program) |-> program[n].op],
                          LAMBDA name : name \in kinds)

RECURSIVE StageOps(_, _)
\* what the stages from the i-th on of a pipeline of n >= 2 simple commands are
\* lowered to, each command being shown by its SpawnCommand
StageOps(i, n) ==
    IF i > n THEN <<>>
    ELSE <<"PushIo">> \o (IF i # 1 THEN <<"PopPipe">> ELSE <<>>)
         \o (IF i # n THEN <<"PushPipe">> ELSE <<>>)
         \o <<"SpawnCommand", "PopIo">> \o StageOps(i + 1, n)

\* a pipeline of simple commands without redirections
IsSmallPipeline ==
    /\ ast.command.type = "Pipeline" /\ ast.redirects = <<>>
    /\ \A i \in 1..Len(Stages) : Stages[i] \in SmallCommands

\* C21: for n >= 2 commands the compiler emits for each stage, in order,
\* PushIo, PopPipe unless the stage is the first, PushPipe unless it is the
\* last, the stage's command, PopIo: n - 1 PushPipe and n - 1 PopPipe, each
\* PopPipe after the PushPipe of the preceding stage. For n <= 1 the command
\* is compiled directly, with no PushIo, PushPipe, PopPipe or PopIo.
C21_PipelineLowering ==
    Compiled /\ IsSmallPipeline =>
        /\ OpsOf({"PushIo", "PopPipe", "PushPipe", "SpawnCommand", "PopIo"})
              = IF Len(Stages) >= 2 THEN StageOps(1, Len(Stages))
                ELSE [i \in 1..Len(Stages) |-> "SpawnCommand"]
        /\ Len(Stages) >= 2 => /\ CountOf("PushPipe") = Len(Stages) - 1
                               /\ CountOf("PopPipe") = Len(Stages) - 1

\* `false | true | false` has been compiled with two PushPipe and two PopPipe
C21_Witness ==
    /\ Compiled
    /\ ast = Plain(PipelineType(<<c_false, c_true, c_false>>, FALSE))
    /\ CountOf("PushPipe") = 2 /\ CountOf("PopPipe") = 2 /\ CountOf("PushIo") = 3
    /\ OpsOf({"PopPipe", "PushPipe"}) = <<"PushPipe", "PopPipe", "PushPipe", "PopPipe">>

-----------------------------------------------------------------------------
(* The I/O environment stack *)

\* the number of PushIo minus the number of PopIo among the first n
\* operations of p
IoDepth(p, n) ==
    Cardinality({i \in 1..n : p[i].op = "PushIo"})
        - Cardinality({i \in 1..n : p[i].op = "PopIo"})

\* PushIo and PopIo are properly nested in p, every jump joins two addresses
\* of the same nesting depth, the depth is 0 at the end, and every operation
\* that assigns a file descriptor is inside a PushIo
IoNested(p) ==
    /\ \A n \in 0..Len(p) : IoDepth(p, n) >= 0
    /\ \A n \in 1..Len(p) :
          IsJump(p[n]) /\ p[n].target <= Len(p) =>
              IoDepth(p, n) = IoDepth(p, p[n].target)
    /\ IoDepth(p, Len(p)) = 0
    /\ \A n \in 1..Len(p) :
          p[n].op \in {"OpenFile", "DupFd", "PushPipe", "PopPipe"} => IoDepth(p, n - 1) >= 1

\* C22: in every compiled program PushIo and PopIo are balanced on every
\* execution path; a step changes at most the top of the I/O environment
\* stack, unless it pushes a copy of the top or pops it, so that after a
\* command the stack has the depth and the top it had before: outside every
\* redirection and pipeline stage the machine has its initial I/O environment.
C22_IoBalanced ==
    /\ [](/\ Compiled => IoNested(program)
          /\ Running => /\ Len(ios) = 1 + IoDepth(program, ip)
                        /\ IoDepth(program, ip) = 0 => ios = <<InitialIo>>
          /\ At("SpawnCommand") /\ IoDepth(program, ip) = 0
                => TopIo[0] = Inherited(0) /\ TopIo[1] = Inherited(1)
          /\ pc = "done" /\ ip < Len(program) /\ program[ip + 1].op = "Exit"
                => ios = <<InitialIo>>)
    /\ [][/\ \A k \in 1..(Len(ios) - 1) : k <= Len(ios') /\ ios'[k] = ios[k]
          /\ At("PushIo") => ios' = Append(ios, ios[Len(ios)])
          /\ At("PopIo") => ios' = SubSeq(ios, 1, Len(ios) - 1)]_vars

\* `echo hello >out; true`: true has been spawned with the inherited stdout
\* after echo was spawned with the file
C22_Witness ==
    /\ pc = "done"
    /\ ast = Plain(ListType("Program",
                 <<Command(SimpleType(<<>>, <<w_echo, <<Lit(s_hello)>> >>, <<r_out>>),
                           <<>>, FALSE), c_true>>))
    /\ Len(spawnLog) = 2
    /\ spawnLog[1].stdout = File(s_out) /\ spawnLog[2].stdout = Inherited(1)
    /\ ios = <<InitialIo>>

-----------------------------------------------------------------------------
(* The size of a frame *)

\* The scan of a program keeps, for every frame that is open, the size its
\* PushFrame carries and the largest slot its operations have referred to so
\* far. The k-th operation of p: at a PopFrame the size is the largest slot
\* plus extra, and no operation refers to a slot below 1 or outside every
\* frame.
FrameStep(p, k, acc, extra) ==
    IF p[k].op = "PushFrame"
    THEN [acc EXCEPT !.stack = Append(@, [size |-> p[k].size, high |-> 0])]
    ELSE IF p[k].op = "PopFrame"
    THEN IF acc.stack # <<>>
            /\ acc.stack[Len(acc.stack)].size = acc.stack[Len(acc.stack)].high + extra
         THEN [acc EXCEPT !.stack = SubSeq(@, 1, Len(@) - 1)]
         ELSE [acc EXCEPT !.ok = FALSE]
    ELSE IF \A x \in Operands(p[k]) : x.k # "FrameRelative" THEN acc
    ELSE IF acc.stack # <<>>
            /\ \A x \in Operands(p[k]) : x.k = "FrameRelative" => x.n >= 1
         THEN [acc EXCEPT !.stack[Len(acc.stack)].high =
                  Max({@} \cup {x.n : x \in {y \in Operands(p[k]) :
                                                y.k = "FrameRelative"}})]
         ELSE [acc EXCEPT !.ok = FALSE]

RECURSIVE FrameScan(_, _, _, _, _)
\* the scan of the operations lo..hi of p, by halves
FrameScan(p, lo, hi, acc, extra) ==
    IF ~acc.ok \/ lo > hi THEN acc
    ELSE IF lo = hi THEN FrameStep(p, lo, acc, extra)
    ELSE FrameScan(p, (lo + hi) \div 2 + 1, hi,
                   FrameScan(p, lo, (lo + hi) \div 2, acc, extra), extra)

\* the scan of p has found nothing wrong and has closed every frame
FrameScanned(acc) == acc.ok /\ acc.stack = <<>>

\* every PushFrame of p carries the largest slot of its frame plus extra
FrameSizes(p, extra) ==
    FrameScanned(FrameScan(p, 1, Len(p), [ok |-> TRUE, stack |-> <<>>], extra))

\* C23 as stated: the size patched into PushFrame is high_water + 1, a slot 0
\* being reserved
C23_HighWaterPlusOne == Compiled => FrameSizes(program, 1)

\* C23: the size that commit_frame patches into a frame's PushFrame is the
\* largest slot index ever allocated in that frame, 0 if none was; slots start
\* at 1 and there is no slot 0, so the slots of the frame are 1..size,
\* whatever slots were freed and allocated again in between.
C23_FrameSizeIsHighWater == Compiled => FrameSizes(program, 0)

\* `echo hello` has been compiled: slot 2 is allocated for each of the two
\* words, freed in between, and the frame has size 2
C23_Witness ==
    /\ Compiled
    /\ ast = Simple(<<>>, <<w_echo, <<Lit(s_hello)>> >>)
    /\ program[1] = [op |-> "PushFrame", size |-> 2]
    /\ Cardinality({n \in 1..Len(program) :
                       program[n] = Copy(Immediate(VStr(s_empty)), FrameRelative(2))}) = 2

-----------------------------------------------------------------------------
(* Constructs the compiler rejects *)

RECURSIVE HasUnsupported(_), UnsupportedWord(_)

\* a word with a CommandSubstitution component, a pattern-removal operator,
\* or such a word after an operator that expands its word
UnsupportedWord(word) ==
    \E i \in 1..Len(word) :
        \/ word[i].kind = "CommandSubstitution"
        \/ /\ word[i].kind = "ParamExpand"
           /\ \/ word[i].expr.kind \in {"RemoveSmallestSuffixPattern",
                                        "RemoveLargestSuffixPattern",
                                        "RemoveSmallestPrefixPattern",
                                        "RemoveLargestPrefixPattern"}
              \/ /\ word[i].expr.kind \in {"GetDefault", "AssignDefault", "CheckSet",
                                           "AlternativeValue"}
                 /\ \E j \in 1..Len(word[i].expr.word) : UnsupportedWord(word[i].expr.word[j])

UnsupportedRedirects(redirects) ==
    \E i \in 1..Len(redirects) :
        redirects[i].r = "File" /\ UnsupportedWord(redirects[i].file_name)

UnsupportedPart(part) ==
    part.some /\ \E i \in 1..Len(part.value.commands) : HasUnsupported(part.value.commands[i])

\* a command in which the compiler comes upon a construct it does not handle
HasUnsupported(command) ==
    \/ UnsupportedRedirects(command.redirects)
    \/ CASE command.command.type = "SimpleCommand" ->
              \/ UnsupportedRedirects(command.command.redirects)
              \/ \E i \in 1..Len(command.command.assignments) :
                    UnsupportedWord(command.command.assignments[i].value)
              \/ \E i \in 1..Len(command.command.words) :
                    UnsupportedWord(command.command.words[i])
         [] command.command.type = "If" ->
              \/ UnsupportedPart(Some(command.command.condition))
              \/ UnsupportedPart(command.command.true_part)
              \/ UnsupportedPart(command.command.false_part)
         [] command.command.type \in {"Program", "BraceGroup"} ->
              UnsupportedPart(Some(command.command.list))
         [] command.command.type = "Pipeline" ->
              \E i \in 1..Len(command.command.commands) :
                 HasUnsupported(command.command.commands[i])
         [] OTHER -> TRUE

\* C24: compiling returns an error, and no program, for every command in
\* which compilation reaches an unsupported construct, wherever it is nested:
\* a command kind other than SimpleCommand, If, Program, BraceGroup and
\* Pipeline, a CommandSubstitution word component, a pattern-removal
\* operator. Every other command compiles.
C24_UnsupportedFails ==
    /\ HasUnsupported(ast) =>
          /\ pc \in {"parsed", "compile_error"}
          /\ program = <<>> /\ events = <<>> /\ finalStatus = -1
    /\ pc = "compile_error" => HasUnsupported(ast)

\* compiling `{ if true; then else true | echo >$(...); fi; }` has failed:
\* the rejected word is the file name of a redirection of a pipeline stage
\* inside an If branch inside a brace group
C24_Witness ==
    /\ pc = "compile_error" /\ program = <<>>
    /\ ast = Plain(ListType("BraceGroup",
                 <<Plain(IfType(<<c_true>>, None,
                     Some(<<Plain(PipelineType(
                         <<c_true,
                           Command(SimpleType(<<>>, <<w_echo>>,
                                      <<FileRedirection(<<CommandSubstitution>>, 1)>>),
                                   <<>>, FALSE)>>, FALSE))>>)))>>))

-----------------------------------------------------------------------------
(* SimplePathSearcher *)

\* the candidates of the entries of a PATH string that are files, in the
\* order of the entries
FilesOnPath(path, command, files) ==
    SelectSeq([i \in 1..Len(SplitPaths(path)) |-> PathJoin(SplitPaths(path)[i], command)],
              LAMBDA candidate : candidate \in files)

\* what the calls of next() return: the n-th of the given paths, None after
\* the last one
Yields(paths) ==
    searcher.results = [n \in 1..Len(searcher.results) |->
                           IF n <= Len(paths) THEN Some(paths[n]) ELSE None]

\* C25 as stated: the searcher yields the candidates of the entries of PATH
\* that are files, and nothing when PATH is absent
C25_NothingWithoutPath ==
    Yields(IF ast.path.some THEN FilesOnPath(ast.path.value, ast.command, ast.files)
           ELSE <<>>)

\* C25: SimplePathSearcher yields, in the order of the entries of the PATH
\* string, exactly the paths entry.join(command) that are files, skipping
\* every other entry, and iteration ends once the entries are exhausted. An
\* absent PATH is searched as the empty string, which has one empty entry:
\* the searcher then yields command itself if that is a file, else nothing.
C25_PathSearch ==
    Yields(FilesOnPath(IF ast.path.some THEN ast.path.value ELSE <<>>,
                       ast.command, ast.files))

\* PATH `a:b`, of which only b/c is a file: next() has skipped a, returned
\* b/c and then None
C25_Witness ==
    /\ ast.path = Some(<<"a", ":", "b">>) /\ ast.command = s_c
    /\ ast.files = {<<"b", "/", "c">>}
    /\ searcher.results = <<Some(<<"b", "/", "c">>), None>>

\* The scan of a program keeps a stack of the if_then_else structures that
\* are open: <<TRUE, t>> while in the THEN body of a JumpIfZero whose target
\* is t, <<FALSE, d>> while in the ELSE body of a Jump whose target is d.

RECURSIVE EndedAt(_, _)
\* the stack once the ELSE bodies that end at address k are closed
EndedAt(stack, k) ==
    IF stack # <<>> /\ ~stack[Len(stack)][1] /\ stack[Len(stack)][2] = k
    THEN EndedAt(SubSeq(stack, 1, Len(stack) - 1), k)
    ELSE stack

\* the operation o at address k, the ELSE bodies that end there being
\* closed: a JumpIfZero opens a structure; a Jump must be the operation just
\* before the target of the innermost open JumpIfZero, and its target must
\* not lie before the operation after it
JumpStepAt(p, k, o, stack) ==
    CASE o.op = "JumpIfZero" ->
            [ok |-> o.target >= k + 2, stack |-> Append(stack, <<TRUE, o.target>>)]
      [] o.op = "Jump" ->
            IF stack # <<>> /\ stack[Len(stack)] = <<TRUE, k + 1>>
               /\ o.target >= k + 1 /\ o.target <= Len(p)
            THEN [ok |-> TRUE, stack |-> [stack EXCEPT ![Len(stack)] = <<FALSE, o.target>>]]
            ELSE [ok |-> FALSE, stack |-> stack]
      [] OTHER -> [ok |-> TRUE, stack |-> stack]

RECURSIVE JumpScan(_, _, _, _)
\* the scan of the addresses lo..hi of p, by halves
JumpScan(p, lo, hi, acc) ==
    IF ~acc.ok \/ lo > hi THEN acc
    ELSE IF lo = hi THEN JumpStepAt(p, lo, p[lo + 1], EndedAt(acc.stack, lo))
    ELSE JumpScan(p, (lo + hi) \div 2 + 1, hi, JumpScan(p, lo, (lo + hi) \div 2, acc))

\* the scan of p has found nothing wrong, and every ELSE body has ended at
\* the target of its Jump, with every structure opened inside it ended
JumpScanned(p, acc) == acc.ok /\ EndedAt(acc.stack, Len(p)) = <<>>

\* the jumps of p are those of properly nested if_then_else structures
JumpsNested(p) ==
    JumpScanned(p, JumpScan(p, 0, Len(p) - 1, [ok |-> TRUE, stack |-> <<>>]))

\* the JumpIfZero at address first_jump and the Jump at second_jump of
\* program p are patched for an ELSE body that ends before address after
IfPatched(p, first_jump, second_jump, after) ==
    /\ p[first_jump + 1].op = "JumpIfZero" /\ p[first_jump + 1].target = second_jump + 1
    /\ p[second_jump + 1].op = "Jump" /\ p[second_jump + 1].target = after

\* the length of the program once the ELSE body of the If command cmd is
\* compiled after c, which ends with the THEN body
AfterElse(c, cmd) ==
    Len(OptionalList(Push(c, [op |-> "Jump", target |-> 0]), cmd.false_part).program)

\* c ends with the condition of the If command cmd
IfPatchedAfterCondition(c, cmd) ==
    IfPatched(program, Len(c.program),
              Len(OptionalList(Push(c, [op |-> "JumpIfZero", target |-> 0]),
                               cmd.true_part).program),
              AfterElse(OptionalList(Push(c, [op |-> "JumpIfZero", target |-> 0]),
                                     cmd.true_part), cmd))

\* C26: in a finished program every JumpIfZero targets the operation after
\* the Jump that ends its THEN body and every Jump targets the first
\* operation after its ELSE body, the structures being properly nested and
\* the bodies possibly empty; for an If command the two addresses are those
\* where the compiled THEN and ELSE bodies end; no jump keeps the target 0;
\* patching a site that holds another operation is a compile error.
C26_JumpsPatched ==
    Compiled =>
        /\ JumpsNested(program)
        /\ \A n \in 1..Len(program) : IsJump(program[n]) => program[n].target # 0
        /\ ast.command.type = "If" =>
              IfPatchedAfterCondition(
                  CompoundList(ApplyRedirection(ReserveFrame(NewCompiler), ast.redirects),
                               ast.command.condition),
                  ast.command)
        /\ \A k \in 0..(Len(program) - 1) :
              /\ program[k + 1].op # "JumpIfZero" =>
                    IfThenElseMiddle([NewCompiler EXCEPT !.program = program], k).err
              /\ program[k + 1].op # "Jump" =>
                    IfThenElseEnd([NewCompiler EXCEPT !.program = program], k).err

\* an If command is compiled whose bodies hold further if_then_else, one of
\* them with an empty THEN body (the Jump follows the JumpIfZero) and one
\* with an empty ELSE body (the Jump targets the operation after it)
C26_Witness ==
    /\ Compiled /\ ast.command.type = "If"
    /\ ast.command.true_part.some /\ ast.command.false_part.some
    /\ \E n \in 1..(Len(program) - 1) :
          program[n].op = "JumpIfZero" /\ program[n + 1].op = "Jump"
    /\ \E n \in 1..Len(program) : program[n].op = "Jump" /\ program[n].target = n
    /\ Cardinality({n \in 1..Len(program) : program[n].op = "JumpIfZero"}) >= 3

RECURSIVE SimplesOf(_), SimplesOfList(_, _)
\* the asynchronous flags of the simple commands of a command tree, in the
\* order in which compile_command reaches them
SimplesOf(command) ==
    CASE command.command.type = "SimpleCommand" -> <<command.asynchronous>>
      [] command.command.type = "If" ->
            SimplesOfList(command.command.condition.commands, 1)
            \o (IF command.command.true_part.some
                THEN SimplesOfList(command.command.true_part.value.commands, 1) ELSE <<>>)
            \o (IF command.command.false_part.some
                THEN SimplesOfList(command.command.false_part.value.commands, 1) ELSE <<>>)
      [] command.command.type \in {"Program", "BraceGroup"} ->
            SimplesOfList(command.command.list.commands, 1)
      [] command.command.type = "Pipeline" -> SimplesOfList(command.command.commands, 1)
      [] OTHER -> <<>>

SimplesOfList(commands, i) ==
    IF i > Len(commands) THEN <<>>
    ELSE SimplesOf(commands[i]) \o SimplesOfList(commands, i + 1)

\* the positions of the SpawnCommand operations of p, in order
SpawnPositions(p) ==
    SelectSeq([n \in 1..Len(p) |-> n], LAMBDA n : p[n].op = "SpawnCommand")

\* for every SpawnCommand of p, in order: whether the next operation is not
\* a Wait
NotWaited(p, at) == [i \in 1..Len(at) |-> p[at[i] + 1].op # "Wait"]

SpawnsOf(p) == NotWaited(p, SpawnPositions(p))

RECURSIVE SpawnIsLast(_, _)
\* from the n-th operation of p to the PopFrame that ends the frame, only
\* the operations that end a simple command
SpawnIsLast(p, n) ==
    \/ p[n].op = "PopFrame"
    \/ p[n].op \in {"Wait", "PopEnvironment", "PopIo"} /\ SpawnIsLast(p, n + 1)

\* C27: a finished program has one SpawnCommand per simple command, in
\* source order, followed at once by a Wait exactly when the command is not
\* asynchronous, the Wait reading the status slot the SpawnCommand wrote;
\* nothing but that Wait, PopEnvironment and PopIo stands between the
\* SpawnCommand and the end of the frame of the command. Spawning an
\* asynchronous command leaves the last wait status as it was: SpawnCommand
\* does not change it, and neither do the operations that end the command.
C27_SpawnAndWait ==
    /\ [](Compiled =>
            /\ SpawnsOf(program) = SimplesOf(ast)
            /\ \A n \in 1..Len(program) :
                  program[n].op = "SpawnCommand" =>
                      /\ SpawnIsLast(program, n + 1)
                      /\ program[n + 1].op = "Wait" =>
                            program[n + 1].status = program[n].status)
    /\ [][Running /\ Op.op \in {"SpawnCommand", "PopEnvironment", "PopIo", "PopFrame"} =>
              lastStatus' = lastStatus]_vars

\* a list of a command that is waited for and an asynchronous `false` has
\* run to its end: two commands were spawned and the status is that of the
\* first
C27_Witness ==
    /\ pc = "done" /\ Len(spawnLog) = 2
    /\ SimplesOf(ast) = <<FALSE, TRUE>>
    /\ finalStatus = 0

RECURSIVE RedirOps(_, _)
\* what apply_redirection is to emit for the redirections redir from the
\* i-th on: the operation and the fields of the redirection it carries
RedirOps(redir, i) ==
    IF i > Len(redir) THEN <<>>
    ELSE <<IF redir[i].r = "File"
           THEN [op |-> "OpenFile", fd_number |-> redir[i].fd_number,
                 input |-> redir[i].input, output |-> redir[i].output,
                 clobber |-> redir[i].clobber, append |-> redir[i].append]
           ELSE [op |-> "DupFd", src_fd |-> redir[i].src_fd_number,
                 dest_fd |-> redir[i].dest_fd_number]>>
         \o RedirOps(redir, i + 1)

\* PushIo and one operation per redirection, nothing for an empty list
OpenRedir(redir) ==
    IF redir = <<>> THEN <<>> ELSE <<[op |-> "PushIo"]>> \o RedirOps(redir, 1)

\* PopIo, nothing for an empty list
CloseRedir(redir) == IF redir = <<>> THEN <<>> ELSE <<[op |-> "PopIo"]>>

RECURSIVE IoSkeleton(_), IoSkeletonOfList(_, _), IoSkeletonOfStages(_, _)
\* the I/O operations, SpawnCommand and PopEnvironment that the command tree
\* is to be lowered to, in order
IoSkeleton(command) ==
    OpenRedir(command.redirects)
    \o (CASE command.command.type = "SimpleCommand" ->
                OpenRedir(command.command.redirects)
                \o <<[op |-> "SpawnCommand"]>>
                \o (IF command.command.words # <<>> /\ command.command.assignments # <<>>
                    THEN <<[op |-> "PopEnvironment"]>> ELSE <<>>)
                \o CloseRedir(command.command.redirects)
          [] command.command.type = "If" ->
                IoSkeletonOfList(command.command.condition.commands, 1)
                \o (IF command.command.true_part.some
                    THEN IoSkeletonOfList(command.command.true_part.value.commands, 1)
                    ELSE <<>>)
                \o (IF command.command.false_part.some
                    THEN IoSkeletonOfList(command.command.false_part.value.commands, 1)
                    ELSE <<>>)
          [] command.command.type \in {"Program", "BraceGroup"} ->
                IoSkeletonOfList(command.command.list.commands, 1)
          [] command.command.type = "Pipeline" ->
                IF Len(command.command.commands) <= 1
                THEN IoSkeletonOfList(command.command.commands, 1)
                ELSE IoSkeletonOfStages(command.command.commands, 1)
          [] OTHER -> <<>>)
    \o CloseRedir(command.redirects)

IoSkeletonOfList(commands, i) ==
    IF i > Len(commands) THEN <<>>
    ELSE IoSkeleton(commands[i]) \o IoSkeletonOfList(commands, i + 1)

IoSkeletonOfStages(commands, i) ==
    IF i > Len(commands) THEN <<>>
    ELSE <<[op |-> "PushIo"]>> \o IoSkeleton(commands[i]) \o <<[op |-> "PopIo"]>>
         \o IoSkeletonOfStages(commands, i + 1)

\* an operation of a program without its frame slots
IoOp(o) ==
    CASE o.op = "OpenFile" ->
            [op |-> "OpenFile", fd_number |-> o.fd_number, input |-> o.input,
             output |-> o.output, clobber |-> o.clobber, append |-> o.append]
      [] o.op = "DupFd" -> [op |-> "DupFd", src_fd |-> o.src_fd, dest_fd |-> o.dest_fd]
      [] OTHER -> [op |-> o.op]

\* the operations ops without their frame slots
IoOps(ops) == [i \in 1..Len(ops) |-> IoOp(ops[i])]

\* the PushIo, OpenFile, DupFd, SpawnCommand, PopEnvironment and PopIo of
\* program p, in order
IoOpsOf(p) ==
    IoOps(SelectSeq(p, LAMBDA o : o.op \in {"PushIo", "OpenFile", "DupFd", "SpawnCommand",
                                            "PopEnvironment", "PopIo"}))

\* C28: a non-empty redirection list is lowered to one PushIo followed by
\* one operation per redirection in source order, OpenFile with the fd
\* number and the four flags of the redirection, DupFd with its two fds; an
\* empty list to nothing, and to no PopIo later; the redirections of a simple
\* command are pushed after those of the command around it and popped before
\* them, after PopEnvironment.
C28_Redirections ==
    Compiled => IoOpsOf(program) = IoSkeleton(ast)

\* `foo=1 echo hello <out 2>>out`, itself redirected with `>|out`, is compiled
C28_Witness ==
    /\ Compiled /\ ast.command.type = "SimpleCommand"
    /\ ast.redirects = <<r_clobber>> /\ ast.command.redirects = <<r_in, r_append>>
    /\ ast.command.assignments # <<>>
    /\ \E n \in 1..Len(program) : program[n].op = "OpenFile" /\ program[n].append

\* a `!` pipeline of one or more simple commands, without redirections
IsInverted ==
    /\ ast.command.type = "Pipeline" /\ ast.command.inverted /\ ast.redirects = <<>>
    /\ Len(Stages) >= 1
    /\ \A i \in 1..Len(Stages) : Stages[i] \in SmallCommands \cup {c_hello}

\* C29: a `!` pipeline of one or more commands is lowered to one
\* InvertLastWait, which stands after the operations of every stage, each
\* stage having its SpawnCommand; when the stages are commands that are
\* waited for, every one of them is spawned, in order, and the final status
\* is 1 when the last stage exits with 0 and 0 when it exits with another
\* code.
C29_InvertedPipeline ==
    /\ Compiled /\ IsInverted =>
          /\ CountOf("InvertLastWait") = 1
          /\ CountOf("SpawnCommand") = Len(Stages)
          /\ program[Len(program) - 2].op = "InvertLastWait"
          /\ program[Len(program) - 1].op = "PopFrame"
          /\ program[Len(program)].op = "Exit"
    /\ Ended /\ IsInverted
       /\ (\A i \in 1..Len(Stages) : Stages[i] \in SpawningCommands \cup {c_hello}) =>
          /\ pc = "done"
          /\ Len(spawnLog) = Len(Stages)
          /\ \A i \in 1..Len(Stages) : spawnLog[i].argv[1] = NameOf(Stages[i])
          /\ events[Len(events)] = [e |-> "invert", id |-> 0]
          /\ finalStatus = IF HostExitCode(spawnLog[Len(Stages)].argv) = 0 THEN 1 ELSE 0

\* `! true` has run: `true` was spawned and the status is 1
C29_Witness ==
    /\ pc = "done" /\ ast = Plain(PipelineType(<<c_true>>, TRUE))
    /\ Len(spawnLog) = 1 /\ spawnLog[1].argv = <<s_true>>
    /\ finalStatus = 1

\* the run has ended at the Error of the failure branch of `${v:?w}`
Failed == pc = "done" /\ ip < Len(program) /\ Op.op = "Error"

\* the argv operand of the SpawnCommand of a simple command
SpawnArgv ==
    program[CHOOSE n \in 1..Len(program) : program[n].op = "SpawnCommand"].argv

\* the word of the command that holds a CheckSet expansion
CheckSetWord ==
    CHOOSE k \in 1..Len(ast.command.words) :
        \E j \in 1..Len(ast.command.words[k]) :
            /\ ast.command.words[k][j].kind = "ParamExpand"
            /\ ast.command.words[k][j].expr.kind = "CheckSet"

\* C30 as stated: once the failure branch has executed the argv of the
\* command is empty
C30_ArgvEmpty ==
    Failed /\ ast.command.type = "SimpleCommand" => Texts(Read(SpawnArgv).l) = <<>>

\* C30: once the failure branch of a CheckSet expansion in a word of a simple
\* command has executed, the argv of the command holds the elements of the
\* words before that word and nothing of that word or of the words after it:
\* it is empty exactly when nothing came before. The run has ended there,
\* and the SpawnCommand that follows is not executed.
C30_ArgvOfEarlierWords ==
    /\ [](Failed /\ ast.command.type = "SimpleCommand" =>
             /\ Texts(Read(SpawnArgv).l)
                   = ArgvOf(SubSeq(ast.command.words, 1, CheckSetWord - 1), 1, EnvOfWords)
             /\ spawnLog = <<>>)
    /\ [][~Failed]_vars

\* `echo "a b" ${bar:?baz}` has failed with bar unset: argv holds `echo` and
\* `a b`
C30_Witness ==
    /\ Failed
    /\ ast = Simple(<<>>, <<w_echo, <<Quoted(s_a_b)>>, w_check>>)
    /\ Texts(Read(SpawnArgv).l) = <<s_echo, s_a_b>>
    /\ stderr = s_baz

-----------------------------------------------------------------------------
(* The argv of a spawned command *)

\* a simple command without words and without redirections
AssignmentOnly ==
    /\ ast.command.type = "SimpleCommand"
    /\ ast.command.words = <<>> /\ ast.command.assignments # <<>>
    /\ ast.command.redirects = <<>> /\ ast.redirects = <<>>

\* C38 as stated: every SpawnCommand that the machine executes is given an
\* argv of at least one element; a simple command of assignments only asks
\* the host for no spawn and leaves the last wait status as it was.
C38_SpawnHasArgv ==
    /\ At("SpawnCommand") => Read(Op.argv).l # <<>>
    /\ AssignmentOnly /\ Loaded =>
          /\ \A n \in 1..Len(program) : program[n].op # "SpawnCommand"
          /\ lastStatus = 0

-----------------------------------------------------------------------------
(* Forward jumps and termination *)

\* every jump of the program targets an address after its own
JumpsForward ==
    \A n \in 1..Len(program) : IsJump(program[n]) => program[n].target > n - 1

\* the run is over
Stopped == pc \in {"done", "machine_error", "compile_error"}

\* C34 as stated: the jumps go forward, and a run that is over is at the Exit
\* of the program.
C34_ReachesExit ==
    /\ Loaded => JumpsForward
    /\ Stopped /\ pc # "compile_error" =>
          pc = "done" /\ ip < Len(program) /\ Op.op = "Exit"

\* C34: every jump of a compiled program targets an address strictly greater
\* than its own; every step of the machine moves to a greater address inside
\* the program, so that no operation is executed twice and the steps are at
\* most as many as the operations; while the run is not over the machine
\* has a step to take, and the run ends at Exit, or before it at an Error
\* operation or with a runtime error.
C34_ForwardJumpsTerminate ==
    /\ [](Loaded => JumpsForward)
    /\ [](pc = "run" => ip < Len(program) /\ ENABLED Next)
    /\ [][pc = "run" => \/ pc' = "run" /\ ip' > ip
                        \/ Stopped' /\ ip' = ip]_vars
    /\ [](pc = "done" => Op.op \in {"Exit", "Error"})

\* `if false; then true; else false; fi` has reached Exit after both of its
\* jumps were taken or passed
C34_Witness ==
    /\ pc = "done" /\ Op.op = "Exit"
    /\ ast = Plain(IfType(<<c_false>>, Some(<<c_true>>), Some(<<c_false>>)))
    /\ \E n \in 1..Len(program) : program[n].op = "Jump"
    /\ Len(spawnLog) = 2 /\ finalStatus = 1

-----------------------------------------------------------------------------
(* The read end that PopPipe takes *)

\* the PushPipe of the stage before the stage of the PopPipe that is the
\* k-th operation of p: the last PushPipe before it that stands in the same
\* frame at the same I/O depth
PrecedingPushPipe(p, k) ==
    CHOOSE j \in 1..k :
        /\ p[j].op = "PushPipe"
        /\ FrameDepth(p, j) = FrameDepth(p, k) /\ IoDepth(p, j) = IoDepth(p, k)
        /\ \A i \in (j + 1)..k :
              ~(/\ p[i].op = "PushPipe"
                /\ FrameDepth(p, i) = FrameDepth(p, k) /\ IoDepth(p, i) = IoDepth(p, k))

\* the pipe that the PushPipe that is the j-th operation of a program without
\* jumps creates: pipes are numbered as they are created
PipeOfPush(p, j) == Cardinality({i \in 1..j : p[i].op = "PushPipe"})

\* C36 as stated, for the programs without jumps: when PopPipe executes a
\* read end is stashed, and it is that of the pipe the PushPipe of the
\* preceding stage of the same pipeline has created; at Exit no read end is
\* stashed.
C36_StashOfPrecedingStage ==
    (\A n \in 1..Len(program) : ~IsJump(program[n])) =>
        /\ At("PopPipe") =>
              pipeStash = Some(PipeRead(PipeOfPush(program,
                                                   PrecedingPushPipe(program, ip + 1))))
        /\ At("Exit") => pipeStash = None

-----------------------------------------------------------------------------
(* The slots of an operation and the allocator of its frame *)

\* the slots an operation names
SlotsOf(op) == {o.n : o \in {x \in Operands(op) : x.k = "FrameRelative"}}

\* The scan of a compilation keeps, for every frame compiler that is open,
\* the address of its PushFrame and the slots that are allocated and not
\* freed, and the number of calls of the history it has replayed.
\* A call: it is made on the innermost frame, allocate hands out a slot that
\* is not allocated, free is given a slot that is
CallStep(acc, call) ==
    IF acc.stack = <<>> \/ acc.stack[Len(acc.stack)].frame # call.frame
    THEN [acc EXCEPT !.ok = FALSE]
    ELSE IF call.call = "allocate"
    THEN [acc EXCEPT !.ok = call.slot \notin acc.stack[Len(acc.stack)].live,
                     !.stack[Len(acc.stack)].live = @ \cup {call.slot},
                     !.done = @ + 1]
    ELSE [acc EXCEPT !.ok = call.slot \in acc.stack[Len(acc.stack)].live,
                     !.stack[Len(acc.stack)].live = @ \ {call.slot},
                     !.done = @ + 1]

RECURSIVE CallsUntil(_, _, _)
\* the calls made while the program had fewer than k operations
CallsUntil(acc, calls, k) ==
    IF ~acc.ok \/ acc.done >= Len(calls) \/ calls[acc.done + 1].at >= k THEN acc
    ELSE CallsUntil(CallStep(acc, calls[acc.done + 1]), calls, k)

\* the k-th operation as it is emitted: PushFrame opens a frame compiler,
\* PopFrame discards it, any other operation names slots that are allocated
\* in the innermost frame
EmitStep(acc, op, k) ==
    IF ~acc.ok THEN acc
    ELSE IF op.op = "PushFrame"
    THEN [acc EXCEPT !.stack = Append(@, [frame |-> k - 1, live |-> {}])]
    ELSE IF op.op = "PopFrame"
    THEN [acc EXCEPT !.ok = acc.stack # <<>>,
                     !.stack = SubSeq(@, 1, Len(@) - 1)]
    ELSE IF SlotsOf(op) = {} THEN acc
    ELSE [acc EXCEPT !.ok = /\ acc.stack # <<>>
                            /\ SlotsOf(op) \subseteq acc.stack[Len(acc.stack)].live]

RECURSIVE LiveScan(_, _, _, _, _)
\* the scan of the operations lo..hi of p, by halves
LiveScan(p, calls, lo, hi, acc) ==
    IF ~acc.ok \/ lo > hi THEN acc
    ELSE IF lo = hi THEN EmitStep(CallsUntil(acc, calls, lo), p[lo], lo)
    ELSE LiveScan(p, calls, (lo + hi) \div 2 + 1, hi,
                  LiveScan(p, calls, lo, (lo + hi) \div 2, acc))

\* nothing was wrong, every call is replayed and every frame is discarded
LiveScanned(acc, calls) == acc.ok /\ acc.done = Len(calls) /\ acc.stack = <<>>

\* the compilation c has used the allocators of its frames as they are
\* meant to be used
Disciplined(c) ==
    LiveScanned(LiveScan(c.program, c.calls, 1, Len(c.program),
                         [ok |-> TRUE, stack |-> <<>>, done |-> 0]),
                c.calls)

\* a slot of the outermost frame is handed out, freed and handed out again
Recycled(calls) ==
    \E i, j, k \in 1..Len(calls) :
        /\ i < j /\ j < k
        /\ calls[i].frame = 0 /\ calls[j].frame = 0 /\ calls[k].frame = 0
        /\ calls[i].slot = calls[j].slot /\ calls[j].slot = calls[k].slot
        /\ calls[i].call = "allocate" /\ calls[j].call = "free"
        /\ calls[k].call = "allocate"

\* C37: in the compilation of a command every slot that an operation names
\* is, when the operation is emitted, allocated and not freed in the
\* allocator of the current frame; free is called only on a slot that is
\* allocated; allocate never hands out a slot that is still allocated.
C37_SlotsAllocated ==
    pc = "run" /\ ip = 0 => Disciplined(Compile(ast))

\* `echo hello` is compiled: slot 2 held the word `echo`, was freed, and
\* holds the word `hello`
C37_Witness ==
    /\ pc = "run" /\ ip = 0
    /\ ast = Simple(<<>>, <<w_echo, <<Lit(s_hello)>> >>)
    /\ Recycled(Compile(ast).calls)
    /\ program[5].op = "ListAppend" /\ program[8].op = "ListAppend"
    /\ program[5].value = FrameRelative(2) /\ program[8].value = FrameRelative(2)

-----------------------------------------------------------------------------
(* A pipeline against a host whose children run concurrently *)

\* the child the Wait at ip waits for
Waited == host.children[Read(Op.status).id]

\* child is stuck in a write: it has output left and its pipe is full
WriteBlocked(child) ==
    /\ child.state = "running" /\ child.out > 0
    /\ child.stdout.kind = "pipe_write"
    /\ host.fill[child.stdout.id] >= PipeCapacity

\* C35 as stated: a pipeline of two or more synchronous simple commands does
\* not deadlock against a host whose children run concurrently over bounded
\* pipes: while the run is not over the machine or a child has a step to
\* take, and the machine is never in Wait on a stage that is stuck writing
\* into a pipe whose reader is not spawned yet.
C35_PipelineNeverBlocks ==
    /\ pc = "run" => ENABLED NextPipe
    /\ At("Wait") /\ WriteBlocked(Waited) =>
          \E j \in 1..Len(host.children) :
              host.children[j].stdin = PipeRead(Waited.stdout.id)

-----------------------------------------------------------------------------
(* The read-eval-print loop *)

\* the lex errors that more text can resolve
RecoverableLexErrors ==
    {LexError(k) : k \in LexErrorKinds \ {"IoError"}}

\* the last line read met a recoverable lex error
Recoverable ==
    /\ repl.last.outcome.fails = "parse"
    /\ repl.last.outcome.result.error \in RecoverableLexErrors

\* C31: after a line is read the pending input is the accumulated text and a
\* newline if the text met a recoverable lex error, and is empty otherwise
\* (the text ran, or failed in another way); an interrupt empties it; the
\* prompt is "$ " exactly when the pending input is empty and "..> "
\* otherwise; the end of the input ends the loop, which takes no step after.
C31_PendingInput ==
    /\ repl.at = "loop" /\ repl.last.event = "line" =>
          repl.input = IF Recoverable THEN Append(repl.last.text, "\n") ELSE <<>>
    /\ repl.at = "loop" /\ repl.last.event = "interrupted" => repl.input = <<>>
    /\ repl.at = "readline" =>
          /\ repl.prompt \in {"$ ", "..> "}
          /\ repl.prompt = "$ " <=> repl.input = <<>>
    /\ repl.last.event = "eof" => repl.at = "ended"
    /\ repl.at = "ended" => ~ENABLED NextRepl

\* a second line is awaited after two lines that met a recoverable lex error
C31_Witness ==
    /\ repl.at = "readline" /\ repl.prompt = "..> "
    /\ repl.input = <<"'", "a", "\n", "a", "\n">>
    /\ repl.last.event = "line" /\ Recoverable

\* C32: compile_and_run leaves env_bits as they were when parsing, compiling
\* or constructing the machine fails; otherwise env_bits are the working
\* directory and the top environment of the machine after the run, also when
\* the run returned an error.
C32_EnvBits ==
    repl.at = "loop" /\ repl.last.event = "line" =>
        IF repl.last.outcome.fails \in {"parse", "compile_command", "finish", "Machine::new"}
        THEN repl.env = repl.last.before
        ELSE repl.env = repl.last.outcome.top

\* a run that returned an error has replaced the working directory and the
\* environment
C32_Witness ==
    /\ repl.at = "loop" /\ repl.last.event = "line"
    /\ repl.last.outcome.fails = "none" /\ ~repl.last.outcome.result.ok
    /\ repl.env = EnvBits("/tmp", EnvSet(EmptyEnvironment, s_foo, s_1))
    /\ repl.last.before = EnvBits("/", EmptyEnvironment)

-----------------------------------------------------------------------------
(* The list of jobs *)

\* in a sequence of lock events the lock of the list is never taken while
\* the lock of a job is held
ListBeforeJob(locks) ==
    \A i \in 1..Len(locks) :
        locks[i] = "lock list" =>
            Cardinality({k \in 1..(i - 1) : locks[k] = "lock job"})
                = Cardinality({k \in 1..(i - 1) : locks[k] = "unlock job"})

\* C33 as stated: in every state of the list that JobList::add and Job::add
\* reach, also with jobs to which no process was added,
\* check_and_print_status returns, and after it the list holds exactly the
\* jobs whose poll did not report Complete; no call takes the lock of the
\* list while it holds the lock of a job.
C33_CheckAndPrintStatus ==
    /\ jobs.at # "panicked"
    /\ jobs.last.call = "check_and_print_status" /\ jobs.at = "idle" =>
          /\ DOMAIN jobs.list
                = {id \in DOMAIN jobs.last.before : jobs.last.polls[id] # "Complete"}
          /\ \A id \in DOMAIN jobs.list : jobs.list[id] = jobs.last.before[id]
    /\ ListBeforeJob(jobs.last.locks)

====
